---- MODULE Spec2Model ----
(***************************************************************************)
(* Verification model of the entity-resolution core of petals:             *)
(*   src/analytics/entity_resolution/matching.py   (1:1 matchers)          *)
(*   src/analytics/entity_resolution/main.py       (embedding scorer)      *)
(*   src/analytics/entity_resolution/evaluation.py (metrics)               *)
(*                                                                         *)
(* Numbers.  Confidences are fixed-point integers in units of 1e-4         *)
(* (One = 10000 is 1.0), the precision score_pairs rounds to.  A raw       *)
(* similarity (a dot product of two vectors whose coordinates are in units *)
(* of 1e-4) is in units of 1e-8.  Ratios (precision, recall, f1) are exact *)
(* fractions [num, den].                                                   *)
(*                                                                         *)
(* Tables.  A polars DataFrame whose (left, right) keys are unique and     *)
(* whose row order the code does not read is a set of rows; a DataFrame    *)
(* whose order is read (a sorted frame, a result built from a list) is a   *)
(* sequence of rows; a table that may repeat a row is a bag of rows.       *)
(***************************************************************************)
EXTENDS Integers, Sequences, FiniteSets, Bags, TLC

VARIABLES
    \* ---- matching.py ----
    pairs_df,           \* the scored-pair table handed to the matchers
    min_score,          \* the threshold handed to the matchers
    returned,           \* the matching function that was called and has returned
    greedy_result,      \* DataFrame returned by greedy_matching
    hungarian_result,   \* DataFrame returned by hungarian_matching
    solver_assignment,  \* what linear_sum_assignment answered in that call
    comparison,         \* dict returned by compare_matching_algorithms
    \* ---- main.py (scoring) ----
    right_df,           \* the ticker table: ticker -> name
    pair_candidates,    \* dict sponsor_name -> set of candidate tickers
    _model,             \* the module global _model of each process
    score_call,         \* the last call of score_pairs each process made
    \* ---- evaluation.py ----
    predictions,        \* the prediction table handed to the evaluator
    ground_truth,       \* the ground-truth table handed to the evaluator
    min_confidence,     \* the threshold handed to compute_metrics
    metrics,            \* what the last call of the evaluator produced
    at_k,               \* the call of compute_metrics_at_k and what it produced
    threshold_df,       \* the call of threshold_analysis and what it produced
    report,             \* the call of generate_evaluation_report and its dict
    gt_file,            \* the ground-truth file on disk
    load_raised,        \* how the call of load_ground_truth ended
    \* ---- blocking.py ----
    input_text,         \* the string s handed to tokenize
    tokenized,          \* what tokenize returned for s, s.lower() and s.upper()
    \* ---- main.py (the analysis run) ----
    left_df,            \* the sponsor table: the set of sponsor names
    run_pc,             \* where analyze_entity_matches stands
    all_pairs_df,       \* the scored pairs of the run
    run_output,         \* the DataFrame analyze_entity_matches returned
    output_file,        \* the parquet file at output_path
    skip_blocking,      \* the skip_blocking argument of the run
    encoded,            \* the lists of texts handed to model.encode, in order
    \* ---- pipelines/trials/extract.py, pipelines/tickers/extract.py ----
    fetcher,            \* the paginated fetcher that runs
    max_retries,        \* its max_retries argument
    fetch_pc,           \* where the generator stands
    page,               \* its page counter
    retries,            \* its retry counter
    requests,           \* the requests it issued, with the server's answers
    yielded,            \* the records it yielded
    slept               \* the time.sleep calls, in units of rate_limit_delay

matchVars == <<pairs_df, min_score, returned, greedy_result, hungarian_result,
               solver_assignment, comparison>>

scoreVars == <<right_df, pair_candidates, _model, score_call>>

evalVars == <<predictions, ground_truth, min_confidence, metrics>>

reportVars == <<at_k, threshold_df, report>>

loadVars == <<gt_file, load_raised>>

tokVars == <<input_text, tokenized>>

runVars == <<left_df, run_pc, all_pairs_df, run_output, output_file,
             skip_blocking, encoded>>

fetchVars == <<fetcher, max_retries, fetch_pc, page, retries, requests, yielded, slept>>

extVars == <<reportVars, loadVars, tokVars, runVars, fetchVars>>

\* what the top-K, threshold and report functions leave alone
outsideReport == <<matchVars, scoreVars, loadVars, tokVars, runVars, fetchVars>>

\* what the evaluation script leaves alone
outsideLoad == <<matchVars, scoreVars, min_confidence, metrics, at_k, threshold_df,
                 tokVars, runVars, fetchVars>>

\* what tokenize leaves alone
outsideTok == <<matchVars, scoreVars, evalVars, reportVars, loadVars, runVars,
                fetchVars>>

\* what the analysis run leaves alone
outsideRun == <<matchVars, _model, score_call, predictions, min_confidence,
                reportVars, loadVars, tokVars, fetchVars>>

\* what the paginated fetchers leave alone
outsideFetch == <<matchVars, scoreVars, evalVars, reportVars, loadVars, tokVars, runVars>>

vars == <<matchVars, scoreVars, evalVars, extVars>>

-----------------------------------------------------------------------------
(* Bounds of the model *)

\* largest number of rows of a generated scored-pair table
MaxRows == 4

\* largest number of sponsors in pair_candidates
MaxLeft == 2

\* largest number of rows of a generated prediction table
MaxPredictions == 2

\* largest number of rows of a generated ground-truth table
MaxGroundTruth == 2

\* largest number of rows of a generated prediction table of the top-K,
\* threshold and report functions
MaxReportPredictions == 2

\* largest number of rows of a generated ground-truth table of the same
MaxReportGroundTruth == 2

\* fixed point: 1.0
One == 10000

Sponsors == {"A", "B", "C"}
Tickers == {"X", "Y", "Z"}

\* confidences of the generated tables (0.10 and 0.90)
Confs == {1000, 9000}

\* thresholds handed to the matchers: keep every row, keep the rows >= 0.90
MinScores == {0, 9000}

-----------------------------------------------------------------------------
(* Helpers *)

RECURSIVE SumConfidence(_)
\* Series.sum() of the confidence column of a sequence of rows
SumConfidence(rows) ==
    IF rows = <<>> THEN 0
    ELSE Head(rows).confidence + SumConfidence(Tail(rows))

RECURSIVE SumOver(_)
\* sum of the confidences of a set of rows
SumOver(S) ==
    IF S = {} THEN 0
    ELSE LET r == CHOOSE x \in S : TRUE
         IN  r.confidence + SumOver(S \ {r})

\* the set of rows of a sequence of rows
RowSet(rows) == {rows[i] : i \in 1..Len(rows)}

\* the (left, right) key of a row
KeyOf(row) == <<row.sponsor_name, row.ticker>>

RECURSIVE SortDescending(_)
\* df.sort(score_key, descending=True): polars does not fix the order of
\* equal scores, so every descending arrangement of the rows is an outcome
SortDescending(S) ==
    IF S = {} THEN {<<>>}
    ELSE LET top == {r \in S : \A q \in S : q.confidence <= r.confidence}
         IN  UNION {{<<r>> \o t : t \in SortDescending(S \ {r})} : r \in top}

-----------------------------------------------------------------------------
(* matching.py: greedy_matching *)

\* pairs_df.filter(pl.col(score_key) >= min_score)
FilterMinScoreMutant(df, ms) == {row \in df : row.confidence > ms}
FilterMinScore(df, ms) == {row \in df : row.confidence >= ms}

\* the test of the loop body: is one of the row's endpoints already matched
AlreadyMatchedMutant(row, matched_left, matched_right) ==
    row.sponsor_name \in matched_left /\ row.ticker \in matched_right
AlreadyMatched(row, matched_left, matched_right) ==
    row.sponsor_name \in matched_left \/ row.ticker \in matched_right

RECURSIVE GreedyLoop(_, _, _, _)
\* the for loop over the sorted rows; selected_rows is the list it builds
GreedyLoop(rows, matched_left, matched_right, selected_rows) ==
    IF rows = <<>> THEN selected_rows
    ELSE LET row == Head(rows)
         IN  IF AlreadyMatched(row, matched_left, matched_right)
             THEN GreedyLoop(Tail(rows), matched_left, matched_right, selected_rows)
             ELSE GreedyLoop(Tail(rows),
                             matched_left \cup {row.sponsor_name},
                             matched_right \cup {row.ticker},
                             Append(selected_rows, row))

\* the order in which greedy_matching walks the filtered rows
GreedyOrderMutant(df) ==
    {s \in [1..Cardinality(df) -> df] : \A i, j \in 1..Cardinality(df) : i # j => s[i] # s[j]}
GreedyOrder(df) == SortDescending(df)

\* every DataFrame greedy_matching may return (one per order of equal scores)
greedy_matching(df_in, ms) ==
    LET df == FilterMinScore(df_in, ms)
    IN  IF df = {} THEN {<<>>}
        ELSE {GreedyLoop(order, {}, {}, <<>>) : order \in GreedyOrder(df)}

-----------------------------------------------------------------------------
(* matching.py: hungarian_matching *)

\* df[left_key].unique() and df[right_key].unique()
LeftEntities(df) == {row.sponsor_name : row \in df}
RightEntities(df) == {row.ticker : row \in df}

\* pair_lookup: (left, right) -> row; keys are unique, so no row is replaced
PairLookup(df) == [k \in {KeyOf(row) : row \in df} |->
                      CHOOSE row \in df : KeyOf(row) = k]

\* One cell of cost_matrix.  The code stores 1e9 for a combination that is
\* not a candidate and -score for a candidate.  1e9 in units of 1e-4 does
\* not fit a machine integer of the checker, so a cost is kept as the pair
\* [fill: number of 1e9 penalties, score: sum of the scores subtracted].
CostCellMutant(lookup, c) ==
    IF c \in DOMAIN lookup
    THEN [fill |-> 0, score |-> lookup[c].confidence]
    ELSE [fill |-> 0, score |-> 0]
CostCell(lookup, c) ==
    IF c \in DOMAIN lookup
    THEN [fill |-> 0, score |-> lookup[c].confidence]
    ELSE [fill |-> 1, score |-> 0]

RECURSIVE CostOf(_, _)
\* cost_matrix[row_ind, col_ind].sum() of an assignment
CostOf(lookup, asg) ==
    IF asg = {} THEN [fill |-> 0, score |-> 0]
    ELSE LET c == CHOOSE x \in asg : TRUE
             rest == CostOf(lookup, asg \ {c})
             cell == CostCell(lookup, c)
         IN  [fill |-> rest.fill + cell.fill, score |-> rest.score + cell.score]

\* a.fill * 1e9 - a.score < b.fill * 1e9 - b.score; every |score| of a table
\* is far below 1e9, so the number of penalties decides first
CostLessMutant(a, b) ==
    \/ a.fill < b.fill
    \/ a.fill = b.fill /\ a.score < b.score
CostLess(a, b) ==
    \/ a.fill < b.fill
    \/ a.fill = b.fill /\ a.score > b.score

Min2(a, b) == IF a < b THEN a ELSE b

\* the complete assignments of a rectangular matrix: min(n_left, n_right)
\* cells, no two in one row, no two in one column
Assignments(ls, rs) ==
    {asg \in SUBSET (ls \X rs) :
        /\ Cardinality(asg) = Min2(Cardinality(ls), Cardinality(rs))
        /\ \A c, d \in asg : c # d => c[1] # d[1] /\ c[2] # d[2]}

\* scipy.optimize.linear_sum_assignment(cost_matrix): a complete assignment
\* of minimum total cost; which one among equal costs is the solver's choice
linear_sum_assignment(lookup, ls, rs) ==
    LET all == Assignments(ls, rs)
        cost == [asg \in all |-> CostOf(lookup, asg)]
    IN  {asg \in all : \A other \in all : ~CostLess(cost[other], cost[asg])}

\* the membership test of the extraction loop: pair_key in pair_lookup
InPairLookupMutant(lookup, c) == TRUE
InPairLookup(lookup, c) == c \in DOMAIN lookup

\* the row the extraction loop reads for an assigned cell (a cell that is
\* not in pair_lookup has no row: the filler stands for score 0)
LookupRow(lookup, c) ==
    IF c \in DOMAIN lookup THEN lookup[c]
    ELSE [sponsor_name |-> c[1], ticker |-> c[2], confidence |-> 0]

\* selected_rows of the extraction loop, as a set
SelectedRows(lookup, asg, ms) ==
    {LookupRow(lookup, c) :
        c \in {d \in asg : InPairLookup(lookup, d) /\ LookupRow(lookup, d).confidence >= ms}}

\* every (assignment, DataFrame) hungarian_matching may produce
hungarian_matching(df_in, ms) ==
    LET df == FilterMinScore(df_in, ms)
        pair_lookup == PairLookup(df)
    IN  IF df = {} THEN {[assignment |-> {}, rows |-> <<>>]}
        ELSE UNION {{[assignment |-> asg, rows |-> res] :
                        res \in SortDescending(SelectedRows(pair_lookup, asg, ms))} :
                    asg \in linear_sum_assignment(pair_lookup, LeftEntities(df), RightEntities(df))}

-----------------------------------------------------------------------------
(* matching.py: compare_matching_algorithms *)

\* the returned dict (the averages are left out: no claim reads them)
compare_matching_algorithms(df_in, ms) ==
    {LET greedy_total == IF Len(g) > 0 THEN SumConfidence(g) ELSE 0
         hungarian_total == IF Len(h.rows) > 0 THEN SumConfidence(h.rows) ELSE 0
         improvement == hungarian_total - greedy_total
     IN  [greedy_matches |-> Len(g),
          greedy_total_score |-> greedy_total,
          hungarian_matches |-> Len(h.rows),
          hungarian_total_score |-> hungarian_total,
          improvement |-> improvement,
          \* improvement / greedy_total * 100 as the fraction num / den
          improvement_pct |-> IF greedy_total > 0
                              THEN [num |-> improvement * 100, den |-> greedy_total]
                              ELSE [num |-> 0, den |-> 1],
          different_pairs |->
              Cardinality(({KeyOf(r) : r \in RowSet(g)} \ {KeyOf(r) : r \in RowSet(h.rows)})
                          \cup ({KeyOf(r) : r \in RowSet(h.rows)} \ {KeyOf(r) : r \in RowSet(g)}))]
     : g \in greedy_matching(df_in, ms), h \in hungarian_matching(df_in, ms)}

-----------------------------------------------------------------------------
(* Inputs of the matchers *)

\* a scored-pair table: at most MaxRows rows, (left, right) keys unique
RowsOf(ks, f) ==
    {[sponsor_name |-> k[1], ticker |-> k[2], confidence |-> f[k]] : k \in ks}

GenTables ==
    UNION {{RowsOf(ks, f) : f \in [ks -> Confs]} :
           ks \in {s \in SUBSET (Sponsors \X Tickers) : Cardinality(s) <= MaxRows}}

\* tests/test_matching.py, fixture conflict_pairs
conflict_pairs ==
    {[sponsor_name |-> "A", ticker |-> "X", confidence |-> 9000],
     [sponsor_name |-> "A", ticker |-> "Y", confidence |-> 8500],
     [sponsor_name |-> "B", ticker |-> "X", confidence |-> 8800],
     [sponsor_name |-> "B", ticker |-> "Y", confidence |-> 7000]}

NoComparison == [greedy_matches |-> 0, greedy_total_score |-> 0,
                 hungarian_matches |-> 0, hungarian_total_score |-> 0,
                 improvement |-> 0, improvement_pct |-> [num |-> 0, den |-> 1],
                 different_pairs |-> 0]

\* nothing of the matchers has run
IdleMatch ==
    /\ returned = {}
    /\ greedy_result = <<>>
    /\ hungarian_result = <<>>
    /\ solver_assignment = {}
    /\ comparison = NoComparison

\* nothing of the scorer is loaded or has run
IdleScore ==
    /\ right_df = <<>>
    /\ pair_candidates = <<>>
    /\ _model = <<>>
    /\ score_call = <<>>

\* nothing of the evaluator has run
IdleEval ==
    /\ predictions = <<>>
    /\ ground_truth = <<>>
    /\ min_confidence = 0
    /\ metrics = <<>>

\* compute_metrics_at_k, threshold_analysis and the report have not run
IdleReport ==
    /\ at_k = <<>>
    /\ threshold_df = <<>>
    /\ report = <<>>

\* no ground-truth file is read
IdleLoad ==
    /\ gt_file = <<>>
    /\ load_raised = <<>>

\* tokenize has not been called
IdleTok ==
    /\ input_text = <<>>
    /\ tokenized = <<>>

\* no analysis runs
IdleRun ==
    /\ left_df = {}
    /\ run_pc = "idle"
    /\ all_pairs_df = <<>>
    /\ run_output = <<>>
    /\ output_file = <<>>
    /\ skip_blocking = FALSE
    /\ encoded = <<>>

\* no fetcher runs
IdleFetch ==
    /\ fetcher = "None"
    /\ max_retries = 0
    /\ fetch_pc = "idle"
    /\ page = 0
    /\ retries = 0
    /\ requests = <<>>
    /\ yielded = <<>>
    /\ slept = <<>>

\* nothing outside the matchers, the scorer and compute_metrics has run
IdleExt ==
    /\ IdleReport
    /\ IdleLoad
    /\ IdleTok
    /\ IdleRun
    /\ IdleFetch

InitMatch ==
    /\ pairs_df \in GenTables \cup {conflict_pairs}
    /\ min_score \in MinScores
    /\ IdleMatch
    /\ IdleScore
    /\ IdleEval
    /\ IdleExt

GreedyMatching ==
    /\ returned = {}
    /\ \E res \in greedy_matching(pairs_df, min_score) : greedy_result' = res
    /\ returned' = returned \cup {"greedy"}
    /\ UNCHANGED <<pairs_df, min_score, hungarian_result, solver_assignment, comparison, scoreVars, evalVars, extVars>>

HungarianMatching ==
    /\ returned = {}
    /\ \E res \in hungarian_matching(pairs_df, min_score) :
          /\ hungarian_result' = res.rows
          /\ solver_assignment' = res.assignment
    /\ returned' = returned \cup {"hungarian"}
    /\ UNCHANGED <<pairs_df, min_score, greedy_result, comparison, scoreVars, evalVars, extVars>>

CompareMatchingAlgorithms ==
    /\ returned = {}
    /\ \E res \in compare_matching_algorithms(pairs_df, min_score) : comparison' = res
    /\ returned' = returned \cup {"compare"}
    /\ UNCHANGED <<pairs_df, min_score, greedy_result, hungarian_result, solver_assignment, scoreVars, evalVars, extVars>>

NextMatch ==
    \/ GreedyMatching
    \/ HungarianMatching
    \/ CompareMatchingAlgorithms

SpecMatch == InitMatch /\ [][NextMatch]_vars

-----------------------------------------------------------------------------
(* main.py: the embedding capability *)

\* the sentence-transformer models a caller may name
ModelNames == {"all-MiniLM-L6-v2", "all-mpnet-base-v2"}

\* two runs of the program, each with its own module global _model
Procs == {1, 2}

\* the texts of the entities (sponsor names and ticker names), each a
\* sequence of characters: "ab", "AB co", "co", "cd a"
TextList ==
    << <<"a", "b">>,
       <<"A", "B", " ", "c", "o">>,
       <<"c", "o">>,
       <<"c", "d", " ", "a">> >>

Texts == {TextList[i] : i \in 1..Len(TextList)}

\* np.dot of two vectors with coordinates in units of 1e-4: units of 1e-8
Dot(v, w) == v[1] * w[1] + v[2] * w[2]

\* round(x, 4) of a value in units of 1e-8, to units of 1e-4 (half to even)
Round4(x) ==
    LET q == x \div One
        r == x % One
    IN  IF 2 * r > One THEN q + 1
        ELSE IF 2 * r < One THEN q
        ELSE IF q % 2 = 0 THEN q ELSE q + 1

\* normalize_embeddings=True: the norm is 1 at the precision of the model
UnitNorm(v) == Round4(Dot(v, v)) = One

\* the vectors the capability answers with
Vecs == <<  <<-10000, 0>>,  <<0, 10000>>,  <<6000, 8000>>,  <<885, 9961>>  >>

\* two more texts of the analysis run, "cd" and "cd co", and their vectors:
\* unit vectors whose dot product, 0.64998477, is just under
\* CONFIDENCE_AUTO_REJECT
BorderTextList ==
    << <<"c", "d">>,
       <<"c", "d", " ", "c", "o">> >>

BorderVecs == <<  <<3846, 9231>>,  <<9515, 3077>>  >>

\* SentenceTransformer(model_name).encode(text): each model is a fixed map
\* from text to a unit vector, and the two models are different maps
Encode(model, text) ==
    IF \E k \in 1..Len(TextList) : text = TextList[k]
    THEN LET i == CHOOSE k \in 1..Len(TextList) : text = TextList[k]
         IN  IF model = "all-MiniLM-L6-v2" THEN Vecs[i] ELSE Vecs[(i % Len(Vecs)) + 1]
    ELSE LET j == CHOOSE k \in 1..Len(BorderTextList) : text = BorderTextList[k]
         IN  IF model = "all-MiniLM-L6-v2" THEN BorderVecs[j]
             ELSE BorderVecs[(j % Len(BorderVecs)) + 1]

\* get_embedding_model: the value of _model after the call
get_embedding_model(cached, model_name) ==
    IF cached = "None" THEN model_name ELSE cached

\* compute_embeddings(texts, model_name): one vector per text, by the model
\* get_embedding_model returns
compute_embeddings(texts, cached, model_name) ==
    [i \in 1..Len(texts) |-> Encode(get_embedding_model(cached, model_name), texts[i])]

-----------------------------------------------------------------------------
(* main.py: score_pairs *)

\* config.py: CONFIDENCE_AUTO_APPROVE = 0.85, CONFIDENCE_AUTO_REJECT = 0.65
CONFIDENCE_AUTO_APPROVE == 8500
CONFIDENCE_AUTO_REJECT == 6500

STATUS_PENDING == "pending"
STATUS_APPROVED == "approved"
STATUS_REJECTED == "rejected"

\* the if / elif / else on the similarity of a pair (units of 1e-8)
StatusOf(similarity) ==
    IF similarity >= CONFIDENCE_AUTO_APPROVE * One THEN STATUS_APPROVED
    ELSE IF similarity < CONFIDENCE_AUTO_REJECT * One THEN STATUS_REJECTED
    ELSE STATUS_PENDING

\* list(...) of a set: some order of its elements
ListOf(S) ==
    CHOOSE l \in [1..Cardinality(S) -> S] : \A x \in S : \E i \in 1..Cardinality(S) : l[i] = x

\* the index of an entity in its list
IndexOf(l, x) == CHOOSE i \in 1..Len(l) : l[i] = x

\* the early return: not left_entities or not right_entities
NothingToScore(cands) ==
    \/ DOMAIN cands = {}
    \/ UNION {cands[l] : l \in DOMAIN cands} = {}

\* the rows score_pairs appends to results, before the final sort
ScoredRows(rdf, cands, cached, model_name) ==
    LET left_entities == ListOf(DOMAIN cands)
        right_entities == ListOf(UNION {cands[l] : l \in DOMAIN cands})
    IN  IF NothingToScore(cands) THEN {}
        ELSE LET left_texts == left_entities
                 right_texts == [i \in 1..Len(right_entities) |-> rdf[right_entities[i]]]
                 left_embeddings == compute_embeddings(left_texts, cached, model_name)
                 right_embeddings ==
                     compute_embeddings(right_texts,
                                        get_embedding_model(cached, model_name), model_name)
             IN  {LET similarity == Dot(left_embeddings[IndexOf(left_entities, pr[1])],
                                        right_embeddings[IndexOf(right_entities, pr[2])])
                  IN  [sponsor_name |-> pr[1],
                       ticker |-> pr[2],
                       name |-> rdf[pr[2]],
                       confidence |-> Round4(similarity),
                       status |-> StatusOf(similarity)]
                  : pr \in {x \in (DOMAIN cands) \X (DOMAIN rdf) : x[2] \in cands[x[1]]}}

\* every DataFrame score_pairs may return: the rows sorted by confidence
score_pairs(rdf, cands, cached, model_name) ==
    SortDescending(ScoredRows(rdf, cands, cached, model_name))

\* the candidate dicts: at most MaxLeft sponsors, each with a non-empty set
\* of tickers of right_df (pre_filter_by_tokens keeps no empty set)
CandidateDicts(tickers) ==
    UNION {[ls -> (SUBSET tickers) \ {{}}] :
           ls \in {l \in SUBSET Texts : Cardinality(l) <= MaxLeft}}

NoCall == [called |-> FALSE, model_name |-> "None", result |-> <<>>]

InitScore ==
    /\ right_df \in [{"X", "Y"} -> Texts]
    /\ pair_candidates \in CandidateDicts({"X", "Y"})
    /\ _model = [p \in Procs |-> "None"]
    /\ score_call = [p \in Procs |-> NoCall]
    /\ pairs_df = {}
    /\ min_score = 0
    /\ IdleMatch
    /\ IdleEval
    /\ IdleExt

\* a caller loads the model: get_embedding_model(model_name)
GetEmbeddingModel(p, model_name) ==
    /\ _model' = [_model EXCEPT ![p] = get_embedding_model(_model[p], model_name)]
    /\ UNCHANGED <<right_df, pair_candidates, score_call, matchVars, evalVars, extVars>>

\* a caller scores the candidates: score_pairs(..., model_name=model_name)
ScorePairs(p, model_name) ==
    /\ \E df \in score_pairs(right_df, pair_candidates, _model[p], model_name) :
          score_call' = [score_call EXCEPT
                            ![p] = [called |-> TRUE, model_name |-> model_name, result |-> df]]
    /\ _model' = [_model EXCEPT
                     ![p] = IF NothingToScore(pair_candidates) THEN _model[p]
                            ELSE get_embedding_model(_model[p], model_name)]
    /\ UNCHANGED <<right_df, pair_candidates, matchVars, evalVars, extVars>>

NextScore ==
    \/ \E p \in Procs, model_name \in ModelNames : GetEmbeddingModel(p, model_name)
    \/ \E p \in Procs, model_name \in ModelNames : ScorePairs(p, model_name)

SpecScore == InitScore /\ [][NextScore]_vars

-----------------------------------------------------------------------------
(* evaluation.py: compute_metrics *)

\* A table of the evaluator is a bag of rows (row -> number of copies):
\* neither the predictions nor the ground truth are checked for repeats.

RECURSIVE SumFn(_)
\* the sum of the values of a function with a finite domain
SumFn(f) ==
    IF DOMAIN f = {} THEN 0
    ELSE LET x == CHOOSE y \in DOMAIN f : TRUE
         IN  f[x] + SumFn([y \in DOMAIN f \ {x} |-> f[y]])

\* len(df)
LenBag(b) == SumFn(b)

\* predictions.filter(pl.col("confidence") >= min_confidence)
FilterConfidenceMutant(preds, mc) ==
    [row \in {r \in DOMAIN preds : r.confidence <= mc} |-> preds[row]]
FilterConfidence(preds, mc) ==
    [row \in {r \in DOMAIN preds : r.confidence >= mc} |-> preds[row]]

\* the ground-truth rows a prediction row joins with, on (sponsor_name, ticker)
JoinPartners(row, gt) ==
    {g \in DOMAIN gt : g.sponsor_name = row.sponsor_name /\ g.ticker = row.ticker}

\* (joined["label"] == label).sum() of the left join of preds with gt
LabelCount(preds, gt, label) ==
    SumFn([pg \in {x \in (DOMAIN preds) \X (DOMAIN gt) :
                      x[2] \in JoinPartners(x[1], gt) /\ x[2].label = label}
           |-> preds[pg[1]] * gt[pg[2]]])

\* joined["label"].is_null().sum(): the predictions without a ground-truth
\* row, and the joined rows whose ground-truth label is null ("None")
NullLabelCountMutant(preds, gt) == 0
NullLabelCount(preds, gt) ==
    SumFn([row \in {r \in DOMAIN preds : JoinPartners(r, gt) = {}} |-> preds[row]])
        + LabelCount(preds, gt, "None")

\* len(fn_df): the anti-join of the rows labelled correct with the predictions
AntiJoinCountMutant(preds, gt) ==
    SumFn([g \in {x \in DOMAIN gt :
                     ~\E r \in DOMAIN preds :
                         r.sponsor_name = x.sponsor_name /\ r.ticker = x.ticker}
           |-> gt[g]])
AntiJoinCount(preds, gt) ==
    SumFn([g \in {x \in DOMAIN gt :
                     /\ x.label = "correct"
                     /\ ~\E r \in DOMAIN preds :
                            r.sponsor_name = x.sponsor_name /\ r.ticker = x.ticker}
           |-> gt[g]])

\* a float ratio as the exact fraction num / den
Frac(n, d) == [num |-> n, den |-> d]

\* tp / (tp + fp) if (tp + fp) > 0 else 0.0
Ratio(n, d) == IF d > 0 THEN Frac(n, d) ELSE Frac(0, 1)

\* 2 * (precision * recall) / (precision + recall) if (precision + recall) > 0
\* else 0.0
F1Of(precision, recall) ==
    IF precision.num * recall.den + recall.num * precision.den > 0
    THEN Frac(2 * precision.num * recall.num,
              precision.num * recall.den + recall.num * precision.den)
    ELSE Frac(0, 1)

\* sponsors_with_pred.filter(sponsors_with_pred.is_in(sponsors_with_gt))
CoveredSponsorsMutant(sponsors_with_pred, sponsors_with_gt) == sponsors_with_pred
CoveredSponsors(sponsors_with_pred, sponsors_with_gt) ==
    sponsors_with_pred \cap sponsors_with_gt

\* the value compute_metrics returns, or the ZeroDivisionError of the
\* coverage ratio when the ground truth has no row
compute_metrics(preds_in, gt, mc) ==
    LET preds == FilterConfidence(preds_in, mc)
        tp == LabelCount(preds, gt, "correct")
        fp == LabelCount(preds, gt, "incorrect") + NullLabelCount(preds, gt)
        fn == AntiJoinCount(preds, gt)
        tn == 0
        precision == Ratio(tp, tp + fp)
        recall == Ratio(tp, tp + fn)
        f1 == F1Of(precision, recall)
        sponsors_with_gt == {g.sponsor_name : g \in DOMAIN gt}
        sponsors_with_pred == {r.sponsor_name : r \in DOMAIN preds}
    IN  IF Cardinality(sponsors_with_gt) = 0
        THEN [raised |-> "ZeroDivisionError"]
        ELSE [raised |-> "None",
              precision |-> precision,
              recall |-> recall,
              f1 |-> f1,
              true_positives |-> tp,
              false_positives |-> fp,
              false_negatives |-> fn,
              true_negatives |-> tn,
              coverage |-> Frac(Cardinality(CoveredSponsors(sponsors_with_pred,
                                                            sponsors_with_gt)),
                                Cardinality(sponsors_with_gt)),
              total_predictions |-> LenBag(preds),
              total_ground_truth |-> LenBag(gt)]

-----------------------------------------------------------------------------
(* Inputs of the evaluator *)

EvalKeys == {"A", "B"} \X {"X", "Y"}

\* confidences of the generated predictions (0.60 and 0.90)
PredictionConfs == {6000, 9000}

\* thresholds handed to compute_metrics (the default 0.0, and 0.70)
MinConfidences == {0, 7000}

Labels == {"correct", "incorrect", "unknown"}

PredictionRows ==
    {[sponsor_name |-> k[1], ticker |-> k[2], confidence |-> c] :
        k \in EvalKeys, c \in PredictionConfs}

GroundTruthRows ==
    {[sponsor_name |-> k[1], ticker |-> k[2], label |-> l] : k \in EvalKeys, l \in Labels}

\* the bags of at most n rows of R
BagsOf(R, n) ==
    {b \in UNION {[D -> 1..n] : D \in {E \in SUBSET R : Cardinality(E) <= n}} :
        LenBag(b) <= n}

\* a table without repeated rows
AsBag(S) == [row \in S |-> 1]

\* the worked evaluation example
example_ground_truth ==
    AsBag({[sponsor_name |-> "A", ticker |-> "X", label |-> "correct"],
           [sponsor_name |-> "B", ticker |-> "Y", label |-> "correct"],
           [sponsor_name |-> "C", ticker |-> "Z", label |-> "incorrect"]})

example_predictions ==
    AsBag({[sponsor_name |-> "A", ticker |-> "X", confidence |-> 9000],
           [sponsor_name |-> "B", ticker |-> "Y", confidence |-> 8000],
           [sponsor_name |-> "E", ticker |-> "W", confidence |-> 6000]})

InitEval ==
    /\ \/ /\ predictions \in BagsOf(PredictionRows, MaxPredictions)
          /\ ground_truth \in BagsOf(GroundTruthRows, MaxGroundTruth)
       \/ /\ predictions = example_predictions
          /\ ground_truth = example_ground_truth
    /\ min_confidence \in MinConfidences
    /\ metrics = [raised |-> "NotCalled"]
    /\ pairs_df = {}
    /\ min_score = 0
    /\ IdleMatch
    /\ IdleScore
    /\ IdleExt

\* a caller evaluates: compute_metrics(predictions, ground_truth, min_confidence)
ComputeMetrics ==
    /\ metrics.raised = "NotCalled"
    /\ metrics' = compute_metrics(predictions, ground_truth, min_confidence)
    /\ UNCHANGED <<predictions, ground_truth, min_confidence, matchVars, scoreVars, extVars>>

NextEval ==
    \/ ComputeMetrics

SpecEval == InitEval /\ [][NextEval]_vars

-----------------------------------------------------------------------------
(* Claims about the matchers (checked under SpecMatch) *)

\* no two rows of a result share a left id or share a right id
InjectiveRows(rows) ==
    \A i, j \in 1..Len(rows) :
        i # j => /\ rows[i].sponsor_name # rows[j].sponsor_name
                 /\ rows[i].ticker # rows[j].ticker

\* the same for a set of rows
InjectiveSet(S) ==
    \A r, q \in S : r # q => r.sponsor_name # q.sponsor_name /\ r.ticker # q.ticker

\* the rows of the input that pass the threshold
Eligible == {row \in pairs_df : row.confidence >= min_score}

\* C1: for every scored-pair table and every min_score, the results of
\* greedy_matching and of hungarian_matching hold no two rows with the same
\* sponsor_name and no two rows with the same ticker.
C1_PartialInjection ==
    /\ InjectiveRows(greedy_result)
    /\ InjectiveRows(hungarian_result)

\* C1 witness: greedy_matching returned two or more rows after passing over a
\* row whose endpoint was already matched.
C1_Witness ==
    /\ "greedy" \in returned
    /\ Len(greedy_result) >= 2
    /\ \E row \in Eligible : row \notin RowSet(greedy_result)

\* C2: the sum of confidences of hungarian_matching's result is >= that of
\* greedy_matching's result on the same table and min_score, so
\* compare_matching_algorithms reports improvement >= 0 and
\* improvement_pct >= 0.
C2_OptimalityDominance ==
    "compare" \in returned =>
        /\ comparison.hungarian_total_score >= comparison.greedy_total_score
        /\ comparison.improvement >= 0
        /\ comparison.improvement_pct.num >= 0

\* C3: hungarian_matching returns a globally optimal matching: no one-to-one
\* subset of the pairs with confidence >= min_score has a larger total
\* confidence than the returned rows.
C3_GloballyOptimal ==
    "hungarian" \in returned =>
        \A M \in SUBSET Eligible :
            InjectiveSet(M) => SumOver(M) <= SumConfidence(hungarian_result)

\* C4: on A-X=0.90, A-Y=0.85, B-X=0.88, B-Y=0.70 with min_score 0,
\* greedy_matching returns exactly {A->X, B->Y} (total 1.60) and
\* hungarian_matching returns exactly {A->Y, B->X} (total 1.73).
C4_WorkedExample ==
    (pairs_df = conflict_pairs /\ min_score = 0) =>
        /\ "greedy" \in returned =>
              /\ {KeyOf(r) : r \in RowSet(greedy_result)} = {<<"A", "X">>, <<"B", "Y">>}
              /\ Len(greedy_result) = 2
              /\ SumConfidence(greedy_result) = 16000
        /\ "hungarian" \in returned =>
              /\ {KeyOf(r) : r \in RowSet(hungarian_result)} = {<<"A", "Y">>, <<"B", "X">>}
              /\ Len(hungarian_result) = 2
              /\ SumConfidence(hungarian_result) = 17300

\* C4 witness: hungarian_matching has returned on the worked example.
C4_Witness ==
    /\ pairs_df = conflict_pairs
    /\ min_score = 0
    /\ "hungarian" \in returned
    /\ Len(hungarian_result) = 2

NoFreeEligiblePair(rows) ==
    \A row \in Eligible :
        \E i \in 1..Len(rows) :
            \/ rows[i].sponsor_name = row.sponsor_name
            \/ rows[i].ticker = row.ticker

\* C6: both matchers drop the pairs below min_score before matching: no
\* returned row has confidence < min_score, a pair with confidence =
\* min_score is eligible, no endpoint is claimed by a dropped pair (every
\* eligible pair meets a returned row), and the result is empty when the
\* input is empty or every pair is below min_score.
C6_ThresholdFirst ==
    /\ \A i \in 1..Len(greedy_result) :
          greedy_result[i] \in pairs_df /\ greedy_result[i].confidence >= min_score
    /\ \A i \in 1..Len(hungarian_result) :
          hungarian_result[i] \in pairs_df /\ hungarian_result[i].confidence >= min_score
    /\ "greedy" \in returned =>
          /\ (greedy_result = <<>>) <=> (Eligible = {})
          /\ NoFreeEligiblePair(greedy_result)
    /\ "hungarian" \in returned =>
          /\ (hungarian_result = <<>>) <=> (Eligible = {})
          /\ NoFreeEligiblePair(hungarian_result)

\* C6 witness: greedy_matching returned a row whose confidence equals
\* min_score while a dropped pair names the same sponsor.
C6_Witness ==
    /\ "greedy" \in returned
    /\ \E i \in 1..Len(greedy_result) :
          /\ greedy_result[i].confidence = min_score
          /\ \E d \in pairs_df :
                /\ d.confidence < min_score
                /\ d.sponsor_name = greedy_result[i].sponsor_name

\* C25: greedy_matching returns a maximal matching of the filtered pairs,
\* taken in non-increasing confidence order: the returned rows are in
\* non-increasing order of confidence, and every pair with confidence >=
\* min_score that is not returned shares its left or its right id with a
\* returned row of at least its confidence (the row that claimed the id
\* before the pair's turn), so no such pair has both ids free.
C25_GreedyMaximal ==
    "greedy" \in returned =>
        /\ \A i, j \in 1..Len(greedy_result) :
              i < j => greedy_result[i].confidence >= greedy_result[j].confidence
        /\ \A row \in Eligible :
              row \notin RowSet(greedy_result) =>
                  \E i \in 1..Len(greedy_result) :
                      /\ \/ greedy_result[i].sponsor_name = row.sponsor_name
                         \/ greedy_result[i].ticker = row.ticker
                      /\ greedy_result[i].confidence >= row.confidence

\* C25 witness: greedy_matching returned two rows and passed over a pair
\* whose confidence is above that of the last row it took.
C25_Witness ==
    /\ "greedy" \in returned
    /\ Len(greedy_result) >= 2
    /\ \E row \in Eligible :
          /\ row \notin RowSet(greedy_result)
          /\ row.confidence > greedy_result[Len(greedy_result)].confidence

\* the one-to-one subsets of the filtered candidate graph
Matchings == {m \in SUBSET Eligible : InjectiveSet(m)}

\* the size of a maximum-cardinality matching of the filtered graph
MaxMatchingSize ==
    CHOOSE n \in 0..Cardinality(Eligible) :
        /\ \E m \in Matchings : Cardinality(m) = n
        /\ \A m \in Matchings : Cardinality(m) <= n

-----------------------------------------------------------------------------
(* Claims about the scorer (checked under SpecScore) *)

\* the rows of every table score_pairs has returned
ScoredPairs ==
    UNION {RowSet(score_call[p].result) : p \in {q \in Procs : score_call[q].called}}

\* C7: for every scored pair emitted by score_pairs the status is determined
\* by the reported confidence and the two thresholds alone: approved iff
\* confidence >= 0.85, rejected iff confidence < 0.65, pending otherwise.
C7_StatusFromConfidence ==
    \A row \in ScoredPairs :
        /\ row.status = "approved" <=> row.confidence >= 8500
        /\ row.status = "rejected" <=> row.confidence < 6500
        /\ row.status = "pending" <=> (row.confidence >= 6500 /\ row.confidence < 8500)

\* C8: for every scored pair emitted by score_pairs, 0 <= confidence <= 1,
\* whatever unit-norm vectors the embedding capability returns.
C8_ConfidenceInUnitInterval ==
    (\A m \in ModelNames, t \in Texts : UnitNorm(Encode(m, t)))
        => \A row \in ScoredPairs : 0 <= row.confidence /\ row.confidence <= 10000

\* C9: two calls of score_pairs with the same entity tables, candidate sets
\* and model_name return the same confidence for every pair, whatever was
\* called earlier in the process of either call.
C9_NoHiddenState ==
    \A p, q \in Procs :
        (/\ score_call[p].called
         /\ score_call[q].called
         /\ score_call[p].model_name = score_call[q].model_name)
        => \A r \in RowSet(score_call[p].result), t \in RowSet(score_call[q].result) :
              (r.sponsor_name = t.sponsor_name /\ r.ticker = t.ticker)
                  => r.confidence = t.confidence

-----------------------------------------------------------------------------
(* Claims about the evaluator (checked under SpecEval) *)

\* compute_metrics has returned a value
MetricsReturned == metrics.raised = "None"

\* the prediction rows that pass min_confidence
Surviving == {r \in DOMAIN predictions : r.confidence >= min_confidence}

\* the labels the ground truth gives to the (left, right) pair of a row
LabelsOf(row) ==
    {g.label : g \in {x \in DOMAIN ground_truth :
                         x.sponsor_name = row.sponsor_name /\ x.ticker = row.ticker}}

\* the number of surviving predictions (copies counted) that satisfy want
CountSurviving(want(_)) ==
    SumFn([r \in {x \in Surviving : want(x)} |-> predictions[r]])

IsLabelledCorrect(row) == "correct" \in LabelsOf(row)
IsLabelledIncorrect(row) == "incorrect" \in LabelsOf(row)
IsUnlabelled(row) == LabelsOf(row) = {}

\* the two fractions are the same number
SameRatio(f, n, d) == f.num * d = n * f.den

\* no (left, right) pair has two rows in the ground truth
UniqueGroundTruth ==
    \A g \in DOMAIN ground_truth :
        /\ ground_truth[g] = 1
        /\ \A h \in DOMAIN ground_truth :
              (h.sponsor_name = g.sponsor_name /\ h.ticker = g.ticker) => h = g

\* the counts and the worked example of C10
C10_Counts ==
    /\ metrics.true_positives = CountSurviving(IsLabelledCorrect)
    /\ metrics.false_positives =
          CountSurviving(IsLabelledIncorrect) + CountSurviving(IsUnlabelled)
    /\ (/\ predictions = example_predictions
        /\ ground_truth = example_ground_truth
        /\ min_confidence = 0)
       => /\ metrics.true_positives = 2
          /\ metrics.false_positives = 1
          /\ metrics.false_negatives = 0
          /\ SameRatio(metrics.precision, 2, 3)
          /\ SameRatio(metrics.recall, 1, 1)
          /\ SameRatio(metrics.f1, 8, 10)

\* C10 as stated: compute_metrics counts true_positives as the predictions
\* with confidence >= min_confidence whose pair is labelled correct and
\* false_positives as those labelled incorrect plus those without a
\* ground-truth row; on the worked example TP=2, FP=1, FN=0, precision 2/3,
\* recall 1, F1 0.8.
C10_Original == MetricsReturned => C10_Counts

\* C10 amended: the same, for a ground truth with at most one row per
\* (left, right) pair.
C10_Amended == (MetricsReturned /\ UniqueGroundTruth) => C10_Counts

\* C10 witness: compute_metrics returned on the worked example, where (E, W)
\* has no ground-truth row and counts as the false positive.
C10_Witness ==
    /\ MetricsReturned
    /\ UniqueGroundTruth
    /\ predictions = example_predictions
    /\ ground_truth = example_ground_truth
    /\ metrics.false_positives = 1

\* no (left, right) pair has two rows in the predictions
UniquePredictions ==
    \A r \in DOMAIN predictions :
        /\ predictions[r] = 1
        /\ \A q \in DOMAIN predictions :
              (q.sponsor_name = r.sponsor_name /\ q.ticker = r.ticker) => q = r

\* the ground-truth rows labelled correct
CorrectRows == {g \in DOMAIN ground_truth : g.label = "correct"}

\* the ground-truth row's pair is the pair of a surviving prediction
Predicted(g) ==
    \E r \in Surviving : r.sponsor_name = g.sponsor_name /\ r.ticker = g.ticker

\* C11: with unique (left, right) pairs in the predictions and in the ground
\* truth, for every min_confidence each ground-truth row labelled correct is
\* counted exactly once: in true_positives if its pair is among the surviving
\* predictions, in false_negatives otherwise; so true_positives +
\* false_negatives is the number of rows labelled correct.
C11_CorrectCountedOnce ==
    (MetricsReturned /\ UniquePredictions /\ UniqueGroundTruth) =>
        /\ metrics.true_positives = Cardinality({g \in CorrectRows : Predicted(g)})
        /\ metrics.false_negatives = Cardinality({g \in CorrectRows : ~Predicted(g)})
        /\ metrics.true_positives + metrics.false_negatives = Cardinality(CorrectRows)

\* C11 witness: one row labelled correct is predicted above min_confidence
\* and another one has a prediction that the filter dropped.
C11_Witness ==
    /\ MetricsReturned
    /\ UniquePredictions
    /\ UniqueGroundTruth
    /\ metrics.true_positives = 1
    /\ metrics.false_negatives = 1
    /\ \E g \in CorrectRows, r \in DOMAIN predictions :
          /\ r.sponsor_name = g.sponsor_name
          /\ r.ticker = g.ticker
          /\ r.confidence < min_confidence

\* compute_metrics has been called (it returned or it raised)
MetricsCalled == metrics.raised # "NotCalled"

\* the three ratios of a returned value, from its three counts
RatiosFromCounts ==
    LET tp == metrics.true_positives
        fp == metrics.false_positives
        fn == metrics.false_negatives
        p == metrics.precision
        r == metrics.recall
        f == metrics.f1
    IN  /\ p.den > 0 /\ r.den > 0 /\ f.den > 0
        /\ tp + fp > 0 => SameRatio(p, tp, tp + fp)
        /\ tp + fp = 0 => p.num = 0
        /\ tp + fn > 0 => SameRatio(r, tp, tp + fn)
        /\ tp + fn = 0 => r.num = 0
        /\ (p.num > 0 \/ r.num > 0) =>
              SameRatio(f, 2 * p.num * r.num, p.num * r.den + r.num * p.den)
        /\ (p.num = 0 /\ r.num = 0) => f.num = 0

\* C13: every call of compute_metrics returns, with precision = TP/(TP+FP),
\* recall = TP/(TP+FN) and f1 = the harmonic mean of the two, and with 0.0
\* instead of an exception for precision when TP+FP = 0, for recall when
\* TP+FN = 0 and for f1 when precision + recall = 0.
C13_RatiosWithoutRaising ==
    MetricsCalled => (MetricsReturned /\ RatiosFromCounts)

\* what holds of C13: the ratios of every value compute_metrics returns
C13_RatiosWhenReturned ==
    MetricsReturned => RatiosFromCounts

\* C28: compute_metrics never raises a division error: for every prediction
\* table and every ground-truth table, a ground truth without rows included,
\* it returns a value whose precision, recall, f1 and coverage are defined.
C28_NeverDivisionError ==
    MetricsCalled =>
        /\ metrics.raised # "ZeroDivisionError"
        /\ MetricsReturned
        /\ metrics.precision.den > 0
        /\ metrics.recall.den > 0
        /\ metrics.f1.den > 0
        /\ metrics.coverage.den > 0

\* what holds of C28: compute_metrics returns, with the four ratios
\* defined, for every ground truth that has a row.
C28_ReturnsOnGroundTruthRows ==
    (MetricsCalled /\ DOMAIN ground_truth # {}) =>
        /\ MetricsReturned
        /\ metrics.precision.den > 0
        /\ metrics.recall.den > 0
        /\ metrics.f1.den > 0
        /\ metrics.coverage.den > 0

IsLabelledUnknown(row) == "unknown" \in LabelsOf(row)

\* C29: with unique (left, right) keys in the ground truth, every prediction
\* that survives min_confidence is classified exactly once: true_positives
\* + false_positives + the number of surviving predictions labelled unknown
\* = total_predictions; a prediction labelled unknown is in neither count,
\* and true_negatives is 0.
C29_ClassifiedOnce ==
    (MetricsReturned /\ UniqueGroundTruth) =>
        /\ metrics.total_predictions = SumFn([r \in Surviving |-> predictions[r]])
        /\ metrics.true_positives + metrics.false_positives
              + CountSurviving(IsLabelledUnknown) = metrics.total_predictions
        /\ metrics.true_positives = CountSurviving(IsLabelledCorrect)
        /\ metrics.false_positives =
              CountSurviving(IsLabelledIncorrect) + CountSurviving(IsUnlabelled)
        /\ metrics.true_negatives = 0

\* C29 witness: of two surviving predictions one is labelled unknown and the
\* other has no ground-truth row; the first is in no count, the second is
\* the false positive.
C29_Witness ==
    /\ MetricsReturned
    /\ UniqueGroundTruth
    /\ metrics.total_predictions = 2
    /\ metrics.true_positives = 0
    /\ metrics.false_positives = 1
    /\ \E r \in Surviving : IsLabelledUnknown(r)
    /\ \E r \in Surviving : IsUnlabelled(r)

\* the distinct left entities of the ground truth
GroundTruthSponsors == {g.sponsor_name : g \in DOMAIN ground_truth}

\* C15: coverage is the number of distinct ground-truth left entities with
\* at least one prediction of confidence >= min_confidence, divided by the
\* number of distinct ground-truth left entities; it lies in [0, 1], and
\* predictions for left entities absent from the ground truth do not count.
C15_Coverage ==
    MetricsReturned =>
        /\ SameRatio(metrics.coverage,
                     Cardinality({s \in GroundTruthSponsors :
                                     \E r \in Surviving : r.sponsor_name = s}),
                     Cardinality(GroundTruthSponsors))
        /\ metrics.coverage.den > 0
        /\ 0 <= metrics.coverage.num
        /\ metrics.coverage.num <= metrics.coverage.den

\* C15 witness: a surviving prediction names a left entity that the ground
\* truth does not have, next to one that it has.
C15_Witness ==
    /\ MetricsReturned
    /\ metrics.coverage.num >= 1
    /\ \E r \in Surviving : r.sponsor_name \notin GroundTruthSponsors

-----------------------------------------------------------------------------
(* evaluation.py: compute_metrics_at_k *)

\* the rows of a table one by one: copy number i of row r
Copies(b) ==
    UNION {{[sponsor_name |-> r.sponsor_name, ticker |-> r.ticker,
             confidence |-> r.confidence, copy |-> i] : i \in 1..b[r]} :
           r \in DOMAIN b}

\* the table of a set of copies
TableOf(items) ==
    LET row(x) == [sponsor_name |-> x.sponsor_name, ticker |-> x.ticker,
                   confidence |-> x.confidence]
    IN  [r \in {row(x) : x \in items} |-> Cardinality({x \in items : row(x) = r})]

\* .group_by("sponsor_name").head(k) of a sorted frame: a row is kept when
\* fewer than k rows of its sponsor come before it
GroupHeadMutant(order, k) ==
    {order[j] : j \in {i \in 1..Len(order) :
        Cardinality({h \in 1..(i - 1) : order[h].sponsor_name = order[i].sponsor_name}) <= k}}
GroupHead(order, k) ==
    {order[j] : j \in {i \in 1..Len(order) :
        Cardinality({h \in 1..(i - 1) : order[h].sponsor_name = order[i].sponsor_name}) < k}}

\* predictions.sort("confidence", descending=True).group_by(...).head(k):
\* one table per order of the rows of equal confidence
TopK(preds, k) ==
    {TableOf(GroupHead(order, k)) : order \in SortDescending(Copies(preds))}

\* every (top_k, value) compute_metrics_at_k may compute and return
compute_metrics_at_k(preds, gt, k) ==
    {[top_k |-> t, metrics |-> compute_metrics(t, gt, 0)] : t \in TopK(preds, k)}

-----------------------------------------------------------------------------
(* evaluation.py: threshold_analysis *)

\* [i / 20 for i in range(21)]: 0.00, 0.05, ..., 1.00
DefaultThresholds == [i \in 1..21 |-> (i - 1) * 500]

\* the dict appended to results for one threshold
ThresholdRow(preds, gt, threshold) ==
    LET m == compute_metrics(preds, gt, threshold)
    IN  [threshold |-> threshold,
         precision |-> m.precision,
         recall |-> m.recall,
         f1 |-> m.f1,
         true_positives |-> m.true_positives,
         false_positives |-> m.false_positives,
         false_negatives |-> m.false_negatives,
         total_predictions |-> m.total_predictions]

\* the DataFrame threshold_analysis returns for a non-empty grid, or the
\* exception of the first call of compute_metrics
threshold_analysis(preds, gt, thresholds) ==
    LET first == compute_metrics(preds, gt, thresholds[1])
    IN  IF first.raised # "None" THEN [raised |-> first.raised]
        ELSE [raised |-> "None",
              rows |-> [i \in 1..Len(thresholds) |-> ThresholdRow(preds, gt, thresholds[i])]]

-----------------------------------------------------------------------------
(* evaluation.py: generate_evaluation_report *)

\* the K values of the report
ReportKs == {1, 3, 5, 10, 20}

\* a < b for two fractions with positive denominators
FracLess(a, b) == a.num * b.den < b.num * a.den

\* threshold_df.sort("f1", descending=True).head(1): a row of largest f1
BestRowsMutant(rows) ==
    {rows[i] : i \in {j \in 1..Len(rows) :
        \A h \in 1..Len(rows) : ~FracLess(rows[h].f1, rows[j].f1)}}
BestRows(rows) ==
    {rows[i] : i \in {j \in 1..Len(rows) :
        \A h \in 1..Len(rows) : ~FracLess(rows[j].f1, rows[h].f1)}}

\* the precision / recall / f1 entry of the report for one K
AtKEntries(preds, gt, k) ==
    {[precision |-> x.metrics.precision, recall |-> x.metrics.recall, f1 |-> x.metrics.f1] :
        x \in compute_metrics_at_k(preds, gt, k)}

\* every dict generate_evaluation_report may return (output_path = None), or
\* the exception of its first call of compute_metrics
generate_evaluation_report(preds, gt) ==
    LET overall == compute_metrics(preds, gt, 0)
        analysis == threshold_analysis(preds, gt, DefaultThresholds)
        entries == [k \in ReportKs |-> AtKEntries(preds, gt, k)]
    IN  IF overall.raised # "None" THEN {[raised |-> overall.raised]}
        ELSE {[raised |-> "None",
               overall_metrics |-> [precision |-> overall.precision,
                                    recall |-> overall.recall,
                                    f1 |-> overall.f1,
                                    coverage |-> overall.coverage,
                                    true_positives |-> overall.true_positives,
                                    false_positives |-> overall.false_positives,
                                    false_negatives |-> overall.false_negatives],
               metrics_at_k |-> m,
               best_threshold |-> [threshold |-> b.threshold,
                                   precision |-> b.precision,
                                   recall |-> b.recall,
                                   f1 |-> b.f1],
               threshold_analysis |-> analysis.rows] :
              m \in {(1 :> e1) @@ (3 :> e3) @@ (5 :> e5) @@ (10 :> e10) @@ (20 :> e20) :
                        e1 \in entries[1], e3 \in entries[3], e5 \in entries[5],
                        e10 \in entries[10], e20 \in entries[20]},
              b \in BestRows(analysis.rows)}

-----------------------------------------------------------------------------
(* Inputs of the top-K, threshold and report functions *)

\* the K values handed to compute_metrics_at_k
Ks == {1, 2}

\* the generated tables of these functions: three pairs, two confidences,
\* the two labels that count
ReportKeys == {<<"A", "X">>, <<"A", "Y">>, <<"B", "X">>}

ReportPredictionRows ==
    {[sponsor_name |-> k[1], ticker |-> k[2], confidence |-> c] :
        k \in ReportKeys, c \in PredictionConfs}

ReportGroundTruthRows ==
    {[sponsor_name |-> k[1], ticker |-> k[2], label |-> l] :
        k \in ReportKeys, l \in {"correct", "incorrect"}}

\* tests/test_evaluation.py, test_metrics_at_k
at_k_ground_truth ==
    AsBag({[sponsor_name |-> "A", ticker |-> "T1", label |-> "correct"],
           [sponsor_name |-> "A", ticker |-> "T2", label |-> "incorrect"]})

at_k_predictions ==
    AsBag({[sponsor_name |-> "A", ticker |-> "T2", confidence |-> 9000],
           [sponsor_name |-> "A", ticker |-> "T1", confidence |-> 8000],
           [sponsor_name |-> "A", ticker |-> "T3", confidence |-> 7000]})

\* tests/test_evaluation.py, test_threshold_analysis
threshold_ground_truth ==
    AsBag({[sponsor_name |-> "A", ticker |-> "T1", label |-> "correct"],
           [sponsor_name |-> "B", ticker |-> "T2", label |-> "correct"],
           [sponsor_name |-> "C", ticker |-> "T3", label |-> "correct"]})

threshold_predictions ==
    AsBag({[sponsor_name |-> "A", ticker |-> "T1", confidence |-> 9000],
           [sponsor_name |-> "B", ticker |-> "T2", confidence |-> 7500],
           [sponsor_name |-> "C", ticker |-> "T3", confidence |-> 4000]})

\* thresholds=[0.0, 0.5, 0.8] of the test, and a grid that is not sorted
CustomThresholds == {<<0, 5000, 8000>>, <<9000, 0>>}

NotCalled == [called |-> FALSE]

InitReport ==
    /\ \/ /\ predictions \in BagsOf(ReportPredictionRows, MaxReportPredictions)
          /\ ground_truth \in BagsOf(ReportGroundTruthRows, MaxReportGroundTruth)
       \/ /\ predictions = at_k_predictions
          /\ ground_truth = at_k_ground_truth
       \/ /\ predictions = threshold_predictions
          /\ ground_truth = threshold_ground_truth
    /\ min_confidence = 0
    /\ metrics = [raised |-> "NotCalled"]
    /\ at_k = NotCalled
    /\ threshold_df = NotCalled
    /\ report = NotCalled
    /\ pairs_df = {}
    /\ min_score = 0
    /\ IdleMatch
    /\ IdleScore
    /\ IdleLoad
    /\ IdleTok
    /\ IdleRun
    /\ IdleFetch

\* none of the three functions has been called
NoReportCall == ~at_k.called /\ ~threshold_df.called /\ ~report.called

\* a caller asks for the top-K view: compute_metrics_at_k(predictions, ground_truth, k)
ComputeMetricsAtK(k) ==
    /\ NoReportCall
    /\ \E res \in compute_metrics_at_k(predictions, ground_truth, k) :
          at_k' = [called |-> TRUE, k |-> k, top_k |-> res.top_k, metrics |-> res.metrics]
    /\ UNCHANGED <<threshold_df, report, evalVars, outsideReport>>

\* a caller sweeps a grid: threshold_analysis(predictions, ground_truth, thresholds)
ThresholdAnalysis(thresholds) ==
    /\ NoReportCall
    /\ threshold_df' = [called |-> TRUE, thresholds |-> thresholds,
                        result |-> threshold_analysis(predictions, ground_truth, thresholds)]
    /\ UNCHANGED <<at_k, report, evalVars, outsideReport>>

\* a caller asks for the report: generate_evaluation_report(predictions, ground_truth)
GenerateEvaluationReport ==
    /\ NoReportCall
    /\ \E res \in generate_evaluation_report(predictions, ground_truth) :
          report' = [called |-> TRUE, result |-> res]
    /\ UNCHANGED <<at_k, threshold_df, evalVars, outsideReport>>

NextReport ==
    \/ \E k \in Ks : ComputeMetricsAtK(k)
    \/ \E thresholds \in {DefaultThresholds} \cup CustomThresholds :
          ThresholdAnalysis(thresholds)
    \/ GenerateEvaluationReport

SpecReport == InitReport /\ [][NextReport]_vars

-----------------------------------------------------------------------------
(* Claims about the top-K, threshold and report functions (checked under
   SpecReport) *)

\* threshold_analysis has returned a DataFrame
AnalysisReturned == threshold_df.called /\ threshold_df.result.raised = "None"

\* C12: for a fixed prediction table and a fixed ground truth the recall of
\* compute_metrics does not grow with min_confidence: of two thresholds of a
\* sweep, the larger one never has the larger recall.
C12_RecallMonotone ==
    AnalysisReturned =>
        LET rows == threshold_df.result.rows
        IN  \A i, j \in 1..Len(rows) :
                rows[i].threshold <= rows[j].threshold
                    => ~FracLess(rows[i].recall, rows[j].recall)

\* C12 witness: a sweep in which the recall is positive at one threshold and
\* strictly smaller, but still positive, at a larger one.
C12_Witness ==
    /\ AnalysisReturned
    /\ LET rows == threshold_df.result.rows
       IN  \E i, j \in 1..Len(rows) :
               /\ rows[i].threshold < rows[j].threshold
               /\ FracLess(rows[j].recall, rows[i].recall)
               /\ rows[j].recall.num > 0

\* compute_metrics_at_k has returned a value
AtKReturned == at_k.called /\ at_k.metrics.raised = "None"

\* the number of prediction rows of a sponsor in a table (copies counted)
RowsOfSponsor(b, s) ==
    SumFn([r \in {x \in DOMAIN b : x.sponsor_name = s} |-> b[r]])

\* the number of copies of a row in a table
CopiesOf(b, r) == IF r \in DOMAIN b THEN b[r] ELSE 0

\* t keeps, for each left entity of the predictions, its k rows of highest
\* confidence, or all its rows when it has fewer than k
KeepsTopK(t, k) ==
    /\ \A r \in DOMAIN t : CopiesOf(predictions, r) >= t[r]
    /\ \A s \in {r.sponsor_name : r \in DOMAIN predictions} :
          RowsOfSponsor(t, s) = Min2(k, RowsOfSponsor(predictions, s))
    /\ \A kept \in DOMAIN t, r \in DOMAIN predictions :
          (r.sponsor_name = kept.sponsor_name /\ CopiesOf(t, r) < predictions[r])
              => kept.confidence >= r.confidence

\* C17: compute_metrics_at_k(predictions, ground_truth, k) is compute_metrics
\* of the table that keeps for each left entity its k predictions of highest
\* confidence (all of them when it has fewer than k): total_predictions is
\* the sum over the left entities of min(k, number of its predictions), and
\* no kept prediction has a lower confidence than a discarded one of the
\* same entity.
C17_MetricsAtK ==
    AtKReturned =>
        /\ KeepsTopK(at_k.top_k, at_k.k)
        /\ at_k.metrics = compute_metrics(at_k.top_k, ground_truth, 0)
        /\ at_k.metrics.total_predictions =
              SumFn([s \in {r.sponsor_name : r \in DOMAIN predictions} |->
                        Min2(at_k.k, RowsOfSponsor(predictions, s))])

\* C17 witness: the top-2 view of the three predictions of one sponsor (the
\* lowest one is discarded, one of the kept two is labelled correct).
C17_Witness ==
    /\ AtKReturned
    /\ predictions = at_k_predictions
    /\ at_k.k = 2
    /\ at_k.metrics.total_predictions = 2
    /\ at_k.metrics.true_positives = 1

\* generate_evaluation_report has returned a dict
ReportReturned == report.called /\ report.result.raised = "None"

\* C18: threshold_analysis returns one row per threshold of the grid, in the
\* order of the grid (the default grid is 0.00, 0.05, ..., 1.00: 21 values),
\* each row with the metrics compute_metrics gives at that threshold; and
\* the best_threshold of generate_evaluation_report is a row of the default
\* grid whose f1 is >= the f1 of every row.
C18_ThresholdSweep ==
    /\ AnalysisReturned =>
          LET rows == threshold_df.result.rows
              grid == threshold_df.thresholds
          IN  /\ Len(rows) = Len(grid)
              /\ \A i \in 1..Len(rows) :
                    LET m == compute_metrics(predictions, ground_truth, grid[i])
                    IN  /\ rows[i].threshold = grid[i]
                        /\ rows[i].precision = m.precision
                        /\ rows[i].recall = m.recall
                        /\ rows[i].f1 = m.f1
                        /\ rows[i].true_positives = m.true_positives
                        /\ rows[i].false_positives = m.false_positives
                        /\ rows[i].false_negatives = m.false_negatives
              /\ grid = DefaultThresholds =>
                    /\ Len(rows) = 21
                    /\ \A i \in 1..21 : rows[i].threshold = 500 * (i - 1)
    /\ ReportReturned =>
          LET rows == report.result.threshold_analysis
              best == report.result.best_threshold
          IN  /\ Len(rows) = 21
              /\ \E i \in 1..Len(rows) :
                    /\ rows[i].threshold = best.threshold
                    /\ rows[i].threshold = 500 * (i - 1)
                    /\ rows[i].f1 = best.f1
                    /\ rows[i].precision = best.precision
                    /\ rows[i].recall = best.recall
              /\ \A i \in 1..Len(rows) : ~FracLess(best.f1, rows[i].f1)

\* C18 witness: a report whose best threshold has a positive f1 while another
\* threshold of the grid has a smaller one.
C18_Witness ==
    /\ ReportReturned
    /\ report.result.best_threshold.f1.num > 0
    /\ \E i \in 1..Len(report.result.threshold_analysis) :
          FracLess(report.result.threshold_analysis[i].f1,
                   report.result.best_threshold.f1)

-----------------------------------------------------------------------------
(* evaluation.py: load_ground_truth, and the script that evaluates with it *)

required_cols == {"sponsor_name", "ticker", "label"}

valid_labels == {"correct", "incorrect", "unknown"}

\* pl.col("label").is_in(valid_labels) for one value of the column: a
\* boolean, or null for a null label ("None": an empty cell of the file)
IsIn(value, values) ==
    IF value = "None" THEN "null"
    ELSE IF value \in values THEN "true" ELSE "false"

\* ~expr for one value: the negation of null is null
NotExpr(b) ==
    IF b = "null" THEN "null"
    ELSE IF b = "true" THEN "false" ELSE "true"

\* df.filter(~pl.col("label").is_in(valid_labels)): filter keeps the rows
\* whose predicate is true, and so none whose predicate is null
InvalidRows(rows) ==
    {row \in rows : NotExpr(IsIn(row.label, valid_labels)) = "true"}

\* what load_ground_truth(path) does on a file: the exception it raises, or
\* the DataFrame it returns
load_ground_truth(file) ==
    IF file.format \notin {".csv", ".parquet"} THEN [raised |-> "ValueError"]
    ELSE IF ~(required_cols \subseteq file.columns) THEN [raised |-> "ValueError"]
    ELSE IF Cardinality(InvalidRows(file.rows)) > 0 THEN [raised |-> "ValueError"]
    ELSE [raised |-> "None", df |-> AsBag(file.rows)]

\* largest number of rows of a generated ground-truth file
MaxFileRows == 2

\* the labels written in a file: the three valid ones, one that is not, and
\* an empty cell
FileLabels == valid_labels \cup {"maybe", "None"}

\* the headers of the generated files
FileColumns ==
    {required_cols,
     required_cols \cup {"notes"},
     {"sponsor_name", "ticker"},
     {"sponsor_name", "label"}}

\* the rows of a file with the columns cols
FileRows(cols) ==
    {[c \in cols |-> v[c]] :
        v \in {[sponsor_name |-> k[1], ticker |-> k[2], label |-> l, notes |-> ""] :
                  k \in {<<"A", "X">>, <<"B", "Y">>}, l \in FileLabels}}

GroundTruthFiles ==
    UNION {{[format |-> f, columns |-> cols, rows |-> rows] :
               f \in {".csv", ".parquet", ".json"},
               rows \in {R \in SUBSET FileRows(cols) : Cardinality(R) <= MaxFileRows}} :
           cols \in FileColumns}

\* the predictions the script reads
ScriptPredictions ==
    {AsBag({}),
     AsBag({[sponsor_name |-> "A", ticker |-> "X", confidence |-> 9000]}),
     AsBag({[sponsor_name |-> "A", ticker |-> "X", confidence |-> 9000],
            [sponsor_name |-> "B", ticker |-> "Y", confidence |-> 6000]})}

InitLoad ==
    /\ gt_file \in GroundTruthFiles
    /\ load_raised = "NotCalled"
    /\ predictions \in ScriptPredictions
    /\ ground_truth = <<>>
    /\ min_confidence = 0
    /\ metrics = [raised |-> "NotCalled"]
    /\ at_k = NotCalled
    /\ threshold_df = NotCalled
    /\ report = NotCalled
    /\ pairs_df = {}
    /\ min_score = 0
    /\ IdleMatch
    /\ IdleScore
    /\ IdleTok
    /\ IdleRun
    /\ IdleFetch

\* scripts/evaluate_predictions.py: ground_truth = load_ground_truth(); an
\* exception ends the script
LoadGroundTruth ==
    /\ load_raised = "NotCalled"
    /\ LET res == load_ground_truth(gt_file)
       IN  /\ load_raised' = res.raised
           /\ ground_truth' = IF res.raised = "None" THEN res.df ELSE ground_truth
    /\ UNCHANGED <<gt_file, predictions, report, outsideLoad>>

\* scripts/evaluate_predictions.py: report = generate_evaluation_report(
\* predictions, ground_truth), reached when load_ground_truth has returned
EvaluatePredictions ==
    /\ load_raised = "None"
    /\ ~report.called
    /\ \E res \in generate_evaluation_report(predictions, ground_truth) :
          report' = [called |-> TRUE, result |-> res]
    /\ UNCHANGED <<gt_file, load_raised, predictions, ground_truth, outsideLoad>>

NextLoad ==
    \/ LoadGroundTruth
    \/ EvaluatePredictions

SpecLoad == InitLoad /\ [][NextLoad]_vars

-----------------------------------------------------------------------------
(* Claims about load_ground_truth (checked under SpecLoad) *)

\* load_ground_truth has been called
LoadCalled == load_raised # "NotCalled"

\* a required column is missing from the file
MissingColumn == \E c \in {"sponsor_name", "ticker", "label"} : c \notin gt_file.columns

\* a row of the file has a label that is none of correct, incorrect, unknown
LabelOutside ==
    /\ "label" \in gt_file.columns
    /\ \E row \in gt_file.rows : row.label \notin {"correct", "incorrect", "unknown"}

\* fail-fast on the files that satisfy bad
FailFast(bad) ==
    /\ (LoadCalled /\ bad) => load_raised = "ValueError"
    /\ load_raised = "ValueError" => (ground_truth = <<>> /\ ~report.called)
    /\ load_raised = "None" => ground_truth = AsBag(gt_file.rows)

\* C16: load_ground_truth raises ValueError when one of the columns
\* sponsor_name, ticker, label is missing or when a row has a label outside
\* {correct, incorrect, unknown}; then no table is returned and no metric is
\* computed, and a table that is returned has every row of the file.
C16_FailFast == FailFast(MissingColumn \/ LabelOutside)

\* what holds of C16: the same when every label outside the three is a
\* string (no cell of the label column is empty)
C16_FailFastWrittenLabels ==
    FailFast(MissingColumn
             \/ (LabelOutside /\ \A row \in gt_file.rows : row.label # "None"))

-----------------------------------------------------------------------------
(* pipelines/entity_match/blocking.py: tokenize *)

\* A string is the sequence of its characters; None and "" are both the
\* empty sequence (tokenize tests `not text`, true of both).

\* config.py: MIN_TOKEN_LENGTH
MIN_TOKEN_LENGTH == 2

\* config.py: COMMON_TOKENS
COMMON_TOKENS ==
    {<<"i", "n", "c">>,
     <<"c", "o", "r", "p">>,
     <<"c", "o", "r", "p", "o", "r", "a", "t", "i", "o", "n">>,
     <<"l", "t", "d">>,
     <<"l", "i", "m", "i", "t", "e", "d">>,
     <<"l", "l", "c">>,
     <<"p", "l", "c">>,
     <<"a", "g">>,
     <<"s", "a">>,
     <<"n", "v">>,
     <<"b", "v">>,
     <<"g", "m", "b", "h">>,
     <<"c", "o">>,
     <<"c", "o", "m", "p", "a", "n", "y">>,
     <<"c", "o", "m", "p", "a", "n", "i", "e", "s">>,
     <<"p", "h", "a", "r", "m", "a", "c", "e", "u", "t", "i", "c", "a", "l">>,
     <<"p", "h", "a", "r", "m", "a", "c", "e", "u", "t", "i", "c", "a", "l", "s">>,
     <<"p", "h", "a", "r", "m", "a">>,
     <<"b", "i", "o", "t", "e", "c", "h">>,
     <<"t", "h", "e", "r", "a", "p", "e", "u", "t", "i", "c", "s">>,
     <<"b", "i", "o", "s", "c", "i", "e", "n", "c", "e", "s">>,
     <<"l", "a", "b", "o", "r", "a", "t", "o", "r", "i", "e", "s">>,
     <<"l", "a", "b">>,
     <<"l", "a", "b", "s">>,
     <<"h", "e", "a", "l", "t", "h", "c", "a", "r", "e">>,
     <<"h", "e", "a", "l", "t", "h">>,
     <<"m", "e", "d", "i", "c", "a", "l">>,
     <<"s", "c", "i", "e", "n", "c", "e", "s">>,
     <<"s", "c", "i", "e", "n", "c", "e">>,
     <<"i", "n", "t", "e", "r", "n", "a", "t", "i", "o", "n", "a", "l">>,
     <<"g", "l", "o", "b", "a", "l">>,
     <<"g", "r", "o", "u", "p">>,
     <<"h", "o", "l", "d", "i", "n", "g", "s">>,
     <<"t", "h", "e">>}

UpperLetters ==
    <<"A", "B", "C", "D", "E", "F", "G", "H", "I", "J", "K", "L", "M",
      "N", "O", "P", "Q", "R", "S", "T", "U", "V", "W", "X", "Y", "Z">>

LowerLetters ==
    <<"a", "b", "c", "d", "e", "f", "g", "h", "i", "j", "k", "l", "m",
      "n", "o", "p", "q", "r", "s", "t", "u", "v", "w", "x", "y", "z">>

Digits == {"0", "1", "2", "3", "4", "5", "6", "7", "8", "9"}

\* the ASCII letters
AsciiLetters ==
    {UpperLetters[i] : i \in 1..Len(UpperLetters)}
        \cup {LowerLetters[i] : i \in 1..Len(LowerLetters)}

\* str.lower() of one character: an upper-case letter becomes its lower-case
\* letter, every other character of the model stays
LowerChar(char) ==
    IF \E i \in 1..Len(UpperLetters) : UpperLetters[i] = char
    THEN LowerLetters[CHOOSE i \in 1..Len(UpperLetters) : UpperLetters[i] = char]
    ELSE char

\* text.lower()
Lower(str) == [i \in 1..Len(str) |-> LowerChar(str[i])]

RECURSIVE Upper(_)
\* text.upper(): a lower-case letter becomes its upper-case letter, and the
\* sharp s becomes the two letters SS
Upper(str) ==
    IF str = <<>> THEN <<>>
    ELSE LET char == Head(str)
             up == IF char = "ß" THEN <<"S", "S">>
                   ELSE IF \E i \in 1..Len(LowerLetters) : LowerLetters[i] = char
                   THEN <<UpperLetters[CHOOSE i \in 1..Len(LowerLetters) :
                                          LowerLetters[i] = char]>>
                   ELSE <<char>>
         IN  up \o Upper(Tail(str))

\* char.isalnum()
IsAlnum(char) == char \in AsciiLetters \cup Digits \cup {"ß"}

\* the string the loop of tokenize walks: text.lower()
LoweredMutant(str) == str
Lowered(str) == Lower(str)

\* the two places that end a token: it is added when it is long enough and
\* not a common token
AddTokenMutant(current, found) ==
    IF Len(current) > MIN_TOKEN_LENGTH /\ current \notin COMMON_TOKENS
    THEN found \cup {current}
    ELSE found
AddToken(current, found) ==
    IF Len(current) >= MIN_TOKEN_LENGTH /\ current \notin COMMON_TOKENS
    THEN found \cup {current}
    ELSE found

RECURSIVE TokenizeLoop(_, _, _)
\* the for loop over the characters, and the last token after it
TokenizeLoop(chars, current, found) ==
    IF chars = <<>>
    THEN IF current # <<>> THEN AddToken(current, found) ELSE found
    ELSE LET char == Head(chars)
         IN  IF IsAlnum(char)
             THEN TokenizeLoop(Tail(chars), Append(current, char), found)
             ELSE IF current # <<>>
             THEN TokenizeLoop(Tail(chars), <<>>, AddToken(current, found))
             ELSE TokenizeLoop(Tail(chars), current, found)

\* tokenize(text)
tokenize(str) ==
    IF str = <<>> THEN {}
    ELSE TokenizeLoop(Lowered(str), <<>>, {})

-----------------------------------------------------------------------------
(* Inputs of tokenize *)

\* largest length of a generated string
MaxLen == 3

\* the characters of the generated strings: letters in both cases, a
\* separator, and a letter outside ASCII
Chars == {"c", "o", "C", " ", "ß"}

Strings == UNION {[1..n -> Chars] : n \in 0..MaxLen}

\* the company names of TestTokenize
TestStrings ==
    {<<"P", "f", "i", "z", "e", "r", " ", "I", "n", "c", ".">>,
     <<"M", "e", "r", "c", "k", " ", "S", "h", "a", "r", "p", " ", "&", " ",
       "D", "o", "h", "m", "e">>,
     <<"A", "B", " ", "C", "o", "r", "p">>}

\* the string tokenize is called with, for the string s
Variant(str, which) ==
    IF which = "lower" THEN Lower(str)
    ELSE IF which = "upper" THEN Upper(str)
    ELSE str

InitTokenize ==
    /\ input_text \in Strings \cup TestStrings
    /\ tokenized = <<>>
    /\ pairs_df = {}
    /\ min_score = 0
    /\ IdleMatch
    /\ IdleScore
    /\ IdleEval
    /\ IdleReport
    /\ IdleLoad
    /\ IdleRun
    /\ IdleFetch

\* a caller tokenizes s, s.lower() or s.upper()
Tokenize(which) ==
    /\ which \notin DOMAIN tokenized
    /\ tokenized' = tokenized @@ (which :> tokenize(Variant(input_text, which)))
    /\ UNCHANGED <<input_text, outsideTok>>

NextTokenize ==
    \/ \E which \in {"s", "lower", "upper"} : Tokenize(which)

SpecTokenize == InitTokenize /\ [][NextTokenize]_vars

-----------------------------------------------------------------------------
(* Claims about tokenize (checked under SpecTokenize) *)

\* every letter of the string is an ASCII letter
AsciiOnly(str) == \A i \in 1..Len(str) : str[i] \in AsciiLetters \cup Digits \cup {" "}

\* C20: tokenize is case-insensitive: for every string s, tokenize(s) =
\* tokenize(s.lower()), and for a string whose letters are ASCII letters also
\* tokenize(s) = tokenize(s.upper()).
C20_CaseInsensitive ==
    /\ ({"s", "lower"} \subseteq DOMAIN tokenized) =>
          tokenized["s"] = tokenized["lower"]
    /\ ({"s", "upper"} \subseteq DOMAIN tokenized /\ AsciiOnly(input_text)) =>
          tokenized["s"] = tokenized["upper"]

\* C20 witness: a string with an upper-case letter that yields a token, after
\* the three calls.
C20_Witness ==
    /\ DOMAIN tokenized = {"s", "lower", "upper"}
    /\ \E i \in 1..Len(input_text) : input_text[i] = "C"
    /\ tokenized["s"] # {}

\* the maximal alphanumeric runs of a string: the substrings of alphanumeric
\* characters that no alphanumeric character precedes or follows
MaximalRuns(str) ==
    {SubSeq(str, i, j) : <<i, j>> \in
        {ij \in (1..Len(str)) \X (1..Len(str)) :
            /\ ij[1] <= ij[2]
            /\ \A n \in ij[1]..ij[2] : IsAlnum(str[n])
            /\ ij[1] = 1 \/ ~IsAlnum(str[ij[1] - 1])
            /\ ij[2] = Len(str) \/ ~IsAlnum(str[ij[2] + 1])}}

\* C21: tokenize(s) is exactly the set of maximal alphanumeric runs of
\* s.lower() that have at least MIN_TOKEN_LENGTH characters and are not in
\* COMMON_TOKENS: no stop-listed token, no token shorter than 2 characters,
\* no token with a non-alphanumeric character, the last run included when the
\* string does not end in a separator, the empty set for the empty (or null)
\* input, and tokenize("Pfizer Inc.") holds "pfizer" and not "inc".
C21_TokenizeExact ==
    "s" \in DOMAIN tokenized =>
        /\ tokenized["s"] =
              {run \in MaximalRuns(Lower(input_text)) :
                  Len(run) >= 2 /\ run \notin COMMON_TOKENS}
        /\ \A token \in tokenized["s"] :
              /\ token \notin COMMON_TOKENS
              /\ Len(token) >= 2
              /\ \A n \in 1..Len(token) : IsAlnum(token[n])
        /\ input_text = <<>> => tokenized["s"] = {}
        /\ input_text = <<"P", "f", "i", "z", "e", "r", " ", "I", "n", "c", ".">> =>
              /\ <<"p", "f", "i", "z", "e", "r">> \in tokenized["s"]
              /\ <<"i", "n", "c">> \notin tokenized["s"]

\* C21 witness: a string of several runs that does not end in a separator
\* was tokenized, and its last run is one of the tokens.
C21_Witness ==
    /\ "s" \in DOMAIN tokenized
    /\ Len(input_text) > 0
    /\ IsAlnum(input_text[Len(input_text)])
    /\ Cardinality(MaximalRuns(Lower(input_text))) > 1
    /\ \E token \in tokenized["s"] :
          token = SubSeq(Lower(input_text),
                         Len(input_text) - Len(token) + 1, Len(input_text))

-----------------------------------------------------------------------------
(* blocking.py: build_token_index; main.py: pre_filter_by_tokens *)

RECURSIVE IndexLoop(_, _, _)
\* the loop over the rows of df: every token of the row's text gets the
\* row's key in its bucket
IndexLoop(rdf, keys, index) ==
    IF keys = {} THEN index
    ELSE LET key == CHOOSE k \in keys : TRUE
             row_tokens == tokenize(rdf[key])
         IN  IndexLoop(rdf, keys \ {key},
                       [token \in DOMAIN index \cup row_tokens |->
                           (IF token \in DOMAIN index THEN index[token] ELSE {})
                               \cup (IF token \in row_tokens THEN {key} ELSE {})])

\* build_token_index(right_df, right_key, right_text): token -> set of keys
build_token_index(rdf) == IndexLoop(rdf, DOMAIN rdf, <<>>)

\* candidate_keys of one left entity: the buckets of its tokens, united
CandidateKeys(right_index, left_entity) ==
    UNION {right_index[token] :
              token \in {t \in tokenize(left_entity) : t \in DOMAIN right_index}}

\* if candidate_keys: only a left entity with a candidate gets an entry
HasCandidatesMutant(candidate_keys) == TRUE
HasCandidates(candidate_keys) == candidate_keys # {}

\* pre_filter_by_tokens(left_df, right_df): left entity -> candidate keys
pre_filter_by_tokens(ldf, rdf) ==
    LET right_index == build_token_index(rdf)
    IN  [left_entity \in {l \in ldf : HasCandidates(CandidateKeys(right_index, l))} |->
            CandidateKeys(right_index, left_entity)]

\* generate_all_pairs(left_df, right_df): every left entity -> the set of
\* all right keys
AllRightMutant(rdf, left_entity) == {k \in DOMAIN rdf : rdf[k] # left_entity}
AllRight(rdf, left_entity) == DOMAIN rdf

generate_all_pairs(ldf, rdf) ==
    [left_entity \in ldf |-> AllRight(rdf, left_entity)]

-----------------------------------------------------------------------------
(* main.py: analyze_entity_matches, and the evaluation of what it returns *)

\* pl.DataFrame(): no column, no row
EmptyFrame == [columns |-> {}, rows |-> <<>>]

\* select_best_matches(all_pairs_df, min_confidence, algorithm): the
\* DataFrames the chosen matcher may return
select_best_matches(pairs, mc, algorithm) ==
    IF algorithm = "hungarian"
    THEN {h.rows : h \in hungarian_matching(RowSet(pairs), mc)}
    ELSE greedy_matching(RowSet(pairs), mc)

\* the match table: the matcher's rows with name renamed to ticker_name
\* (analysis_id and created_at are left out: no claim reads them)
MatchFrame(rows) ==
    [columns |-> {"sponsor_name", "ticker", "ticker_name", "confidence", "status"},
     rows |-> [i \in 1..Len(rows) |->
                  [sponsor_name |-> rows[i].sponsor_name,
                   ticker |-> rows[i].ticker,
                   ticker_name |-> rows[i].name,
                   confidence |-> rows[i].confidence,
                   status |-> rows[i].status]]]

\* compute_metrics(frame, ground_truth, min_confidence) on a DataFrame with
\* its columns: filtering on a column the frame does not have raises
compute_metrics_of_frame(frame, gt, mc) ==
    IF ~({"sponsor_name", "ticker", "confidence"} \subseteq frame.columns)
    THEN [raised |-> "ColumnNotFoundError"]
    ELSE compute_metrics(
             TableOf({[sponsor_name |-> frame.rows[i].sponsor_name,
                       ticker |-> frame.rows[i].ticker,
                       confidence |-> frame.rows[i].confidence] : i \in 1..Len(frame.rows)}),
             gt, mc)

\* left_texts of score_pairs: the keys of pair_candidates
LeftTexts(cands) == ListOf(DOMAIN cands)

\* right_texts of score_pairs: the name of every right entity, one entry
\* per entity
RightTexts(rdf, cands) ==
    LET right_entities == ListOf(UNION {cands[l] : l \in DOMAIN cands})
    IN  [i \in 1..Len(right_entities) |-> rdf[right_entities[i]]]

\* where the embedding capability raises in a call of score_pairs: nowhere,
\* in SentenceTransformer(model_name), in model.encode(left_texts) or in
\* model.encode(right_texts)
EmbeddingFailures == {"None", "load", "left", "right"}

\* the calls of the capability that one call of score_pairs makes, up to the
\* one that raises: none on the early return, else the load of the model,
\* encode(left_texts) and encode(right_texts)
CapabilityCalls(rdf, cands, failure) ==
    LET load == [fn |-> "SentenceTransformer", texts |-> <<>>, raised |-> failure = "load"]
        left == [fn |-> "encode", texts |-> LeftTexts(cands), raised |-> failure = "left"]
        right == [fn |-> "encode", texts |-> RightTexts(rdf, cands),
                  raised |-> failure = "right"]
    IN  IF NothingToScore(cands) THEN <<>>
        ELSE IF failure = "load" THEN <<load>>
        ELSE IF failure = "left" THEN <<load, left>>
        ELSE <<load, left, right>>

\* an exception of the capability leaves compute_embeddings, score_pairs and
\* analyze_entity_matches: none of them has a try
PropagatesMutant(failure) == FALSE
Propagates(failure) == failure # "None"

\* the sponsor names and ticker names of the warehouse
RunTexts == Texts \cup {BorderTextList[i] : i \in 1..Len(BorderTextList)}

\* the tickers of the warehouse
RunTickers == {"X", "Y"}

\* the matching_algorithm values of a run
Algorithms == {"greedy", "hungarian"}

\* the ground truths a run is evaluated against (none is empty)
RunGroundTruths ==
    {AsBag({[sponsor_name |-> TextList[1], ticker |-> "X", label |-> "correct"]}),
     AsBag({[sponsor_name |-> TextList[1], ticker |-> "X", label |-> "correct"],
            [sponsor_name |-> TextList[4], ticker |-> "Y", label |-> "incorrect"]})}

NotWritten == [written |-> FALSE]

InitRun ==
    /\ left_df \in {l \in SUBSET RunTexts : Cardinality(l) <= MaxLeft}
    /\ right_df \in UNION {[ts -> RunTexts] : ts \in SUBSET RunTickers}
    /\ pair_candidates = <<>>
    /\ run_pc = "start"
    /\ all_pairs_df = <<>>
    /\ run_output = EmptyFrame
    /\ output_file = NotWritten
    /\ skip_blocking \in BOOLEAN
    /\ encoded = <<>>
    /\ ground_truth \in RunGroundTruths
    /\ metrics = [raised |-> "NotCalled"]
    /\ _model = <<>>
    /\ score_call = <<>>
    /\ predictions = <<>>
    /\ min_confidence = 0
    /\ pairs_df = {}
    /\ min_score = 0
    /\ IdleMatch
    /\ IdleReport
    /\ IdleLoad
    /\ IdleTok
    /\ IdleFetch

\* analyze_entity_matches, candidate generation: pre_filter_by_tokens
PreFilterByTokens ==
    /\ run_pc = "start"
    /\ ~skip_blocking
    /\ pair_candidates' = pre_filter_by_tokens(left_df, right_df)
    /\ run_pc' = "blocked"
    /\ UNCHANGED <<skip_blocking, left_df, right_df, all_pairs_df, run_output, output_file,
                   encoded, ground_truth, metrics, outsideRun>>

\* analyze_entity_matches, candidate generation with skip_blocking:
\* generate_all_pairs
GenerateAllPairs ==
    /\ run_pc = "start"
    /\ skip_blocking
    /\ pair_candidates' = generate_all_pairs(left_df, right_df)
    /\ run_pc' = "blocked"
    /\ UNCHANGED <<skip_blocking, left_df, right_df, all_pairs_df, run_output, output_file,
                   encoded, ground_truth, metrics, outsideRun>>

\* analyze_entity_matches: `if not pair_candidates: return pl.DataFrame()`
\* (nothing is scored, matched or written)
ReturnNoCandidates ==
    /\ run_pc = "blocked"
    /\ DOMAIN pair_candidates = {}
    /\ run_output' = EmptyFrame
    /\ run_pc' = "returned"
    /\ UNCHANGED <<skip_blocking, left_df, right_df, pair_candidates, all_pairs_df, output_file,
                   encoded, ground_truth, metrics, outsideRun>>

\* analyze_entity_matches, scoring: score_pairs in the process of the run,
\* whose _model is not loaded before. The embedding capability may raise at
\* the load of the model or at one of the two encode calls; nothing in
\* score_pairs or analyze_entity_matches catches it.
ScoreCandidates(model_name, failure) ==
    /\ run_pc = "blocked"
    /\ DOMAIN pair_candidates # {}
    /\ NothingToScore(pair_candidates) => failure = "None"
    /\ encoded' = CapabilityCalls(right_df, pair_candidates, failure)
    /\ IF Propagates(failure)
       THEN /\ run_pc' = "EmbeddingError"
            /\ all_pairs_df' = all_pairs_df
       ELSE /\ all_pairs_df' \in score_pairs(right_df, pair_candidates, "None", model_name)
            /\ run_pc' = "scored"
    /\ UNCHANGED <<skip_blocking, left_df, right_df, pair_candidates, run_output, output_file,
                   ground_truth, metrics, outsideRun>>

\* analyze_entity_matches, from the 1:1 matching to the end: the match table
\* is written, then the summary formats the mean confidence, which is None
\* for a table without rows (TypeError), and the table is returned
MatchAndSave(algorithm) ==
    /\ run_pc = "scored"
    /\ \E rows \in select_best_matches(all_pairs_df, CONFIDENCE_AUTO_REJECT, algorithm) :
          /\ output_file' = [written |-> TRUE, frame |-> MatchFrame(rows)]
          /\ IF Len(rows) = 0
             THEN run_pc' = "TypeError" /\ run_output' = run_output
             ELSE run_pc' = "returned" /\ run_output' = MatchFrame(rows)
    /\ UNCHANGED <<skip_blocking, left_df, right_df, pair_candidates, all_pairs_df,
                   encoded, ground_truth, metrics, outsideRun>>

\* a caller evaluates what the run returned:
\* compute_metrics(matches_df, ground_truth)
EvaluateRun ==
    /\ run_pc = "returned"
    /\ metrics' = compute_metrics_of_frame(run_output, ground_truth, 0)
    /\ run_pc' = "evaluated"
    /\ UNCHANGED <<skip_blocking, left_df, right_df, pair_candidates, all_pairs_df, run_output,
                   output_file, encoded, ground_truth, outsideRun>>

NextRun ==
    \/ PreFilterByTokens
    \/ GenerateAllPairs
    \/ ReturnNoCandidates
    \/ \E model_name \in ModelNames, failure \in EmbeddingFailures :
          ScoreCandidates(model_name, failure)
    \/ \E algorithm \in Algorithms : MatchAndSave(algorithm)
    \/ EvaluateRun

SpecRun == InitRun /\ [][NextRun]_vars

-----------------------------------------------------------------------------
(* Claims about the analysis run (checked under SpecRun) *)

\* pre_filter_by_tokens has returned (the run does not skip blocking)
Blocked == run_pc \notin {"idle", "start"} /\ ~skip_blocking

\* the two texts share a token
ShareToken(a, b) == tokenize(a) \cap tokenize(b) # {}

\* C19: under token blocking, right entity r is a candidate of left entity l
\* if and only if tokenize(l) and tokenize(name of r) share a token: key k is
\* in the bucket of token t iff t is a token of k's name, and the candidate
\* set of l is the union of the buckets of l's tokens; a left entity whose
\* tokens hit no bucket has no entry (never an entry with an empty set).
C19_TokenBlocking ==
    Blocked =>
        /\ \A l \in left_df, r \in DOMAIN right_df :
              (l \in DOMAIN pair_candidates /\ r \in pair_candidates[l])
                  <=> ShareToken(l, right_df[r])
        /\ \A l \in DOMAIN pair_candidates :
              /\ l \in left_df
              /\ pair_candidates[l] # {}
              /\ pair_candidates[l] \subseteq DOMAIN right_df
        /\ LET index == build_token_index(right_df)
           IN  /\ \A t \in DOMAIN index :
                     index[t] = {k \in DOMAIN right_df : t \in tokenize(right_df[k])}
               /\ \A k \in DOMAIN right_df : tokenize(right_df[k]) \subseteq DOMAIN index
               /\ \A l \in DOMAIN pair_candidates :
                     pair_candidates[l] =
                         UNION {index[t] : t \in tokenize(l) \cap DOMAIN index}

\* C19 witness: one sponsor got a candidate through a shared token, another
\* sponsor has tokens, none of them in the index, and has no entry.
C19_Witness ==
    /\ Blocked
    /\ \E l \in DOMAIN pair_candidates, r \in DOMAIN right_df :
          r \in pair_candidates[l] /\ l # right_df[r]
    /\ \E l \in left_df : tokenize(l) # {} /\ l \notin DOMAIN pair_candidates

\* blocking produced no candidate pair
NoCandidatePair == Blocked /\ DOMAIN pair_candidates = {}

\* C14: when blocking produces no candidate pair the run is a valid outcome:
\* it ends with an empty match table, and evaluating what it returned against
\* a non-empty ground truth gives coverage 0.0 with true_positives =
\* false_positives = 0 instead of failing.
C14_EmptyCandidatesValid ==
    /\ (NoCandidatePair /\ run_pc \in {"returned", "evaluated"}) =>
          Len(run_output.rows) = 0
    /\ (NoCandidatePair /\ run_pc = "evaluated") =>
          /\ metrics.raised = "None"
          /\ metrics.coverage.num = 0
          /\ metrics.true_positives = 0
          /\ metrics.false_positives = 0

\* what holds of C14: each stage on its own accepts an empty input. With no
\* candidate score_pairs returns a frame without rows, both matchers return
\* no row on it, and compute_metrics of a frame without rows that has the
\* columns gives coverage 0.0 and no positive.
C14_StagesAcceptEmpty ==
    /\ score_pairs(right_df, <<>>, "None", "all-MiniLM-L6-v2") = {<<>>}
    /\ select_best_matches(<<>>, CONFIDENCE_AUTO_REJECT, "greedy") = {<<>>}
    /\ select_best_matches(<<>>, CONFIDENCE_AUTO_REJECT, "hungarian") = {<<>>}
    /\ LET m == compute_metrics_of_frame(MatchFrame(<<>>), ground_truth, 0)
       IN  /\ m.raised = "None"
           /\ m.coverage.num = 0
           /\ m.true_positives = 0
           /\ m.false_positives = 0

\* generate_all_pairs has returned (the run skips blocking)
AllPaired == run_pc \notin {"idle", "start"} /\ skip_blocking

\* C22: in no-blocking mode every left entity is paired with every right
\* entity: generate_all_pairs returns one key per left id, and the candidate
\* set of each key is the set of all right ids, whatever the texts are.
C22_AllPairs ==
    AllPaired =>
        /\ DOMAIN pair_candidates = left_df
        /\ \A l \in left_df : pair_candidates[l] = DOMAIN right_df

\* C22 witness: without blocking a sponsor is paired with a ticker it shares
\* no token with, and a sponsor is paired with a ticker of the same text.
C22_Witness ==
    /\ AllPaired
    /\ \E l \in left_df, r \in DOMAIN right_df :
          r \in pair_candidates[l] /\ ~ShareToken(l, right_df[r])
    /\ \E l \in left_df, r \in DOMAIN right_df :
          r \in pair_candidates[l] /\ right_df[r] = l

\* a call of the embedding capability raised
EmbeddingFailed == \E i \in 1..Len(encoded) : encoded[i].raised

\* score_pairs has returned a table
Scored == run_pc \in {"scored", "returned", "TypeError", "evaluated"} /\ encoded # <<>>

\* the candidate pairs of the run
CandidatePairs ==
    {pr \in (DOMAIN pair_candidates) \X (DOMAIN right_df) : pr[2] \in pair_candidates[pr[1]]}

\* C23: a failure of the embedding capability during score_pairs ends
\* score_pairs (and the run) with that failure: no scored-pair table is
\* returned, nothing is matched or written; and a table that is returned
\* has one row per candidate pair, scored with the vectors of the model (no
\* pair skipped, no vector substituted).
C23_EmbeddingFailurePropagates ==
    /\ EmbeddingFailed =>
          /\ run_pc = "EmbeddingError"
          /\ all_pairs_df = <<>>
          /\ run_output = EmptyFrame
          /\ output_file = NotWritten
    /\ Scored =>
          /\ ~EmbeddingFailed
          /\ Len(all_pairs_df) = Cardinality(CandidatePairs)
          /\ \E model \in ModelNames :
                \A pr \in CandidatePairs :
                    \E i \in 1..Len(all_pairs_df) :
                        /\ all_pairs_df[i].sponsor_name = pr[1]
                        /\ all_pairs_df[i].ticker = pr[2]
                        /\ all_pairs_df[i].confidence =
                              Round4(Dot(Encode(model, pr[1]), Encode(model, right_df[pr[2]])))

\* C23 witness: the left texts were embedded and the embedding of the right
\* texts raised, for a run with two candidate pairs.
C23_Witness ==
    /\ Len(encoded) = 3
    /\ encoded[3].raised
    /\ ~encoded[2].raised
    /\ Cardinality(CandidatePairs) > 1
    /\ run_pc = "EmbeddingError"

\* how many times a text was handed to model.encode in the run
TimesEncoded(str) ==
    LET Occurrences(i) == Cardinality({n \in 1..Len(encoded[i].texts) : encoded[i].texts[n] = str})
        RECURSIVE Sum(_)
        Sum(i) == IF i = 0 THEN 0
                  ELSE Sum(i - 1) + (IF encoded[i].fn = "encode" THEN Occurrences(i) ELSE 0)
    IN  Sum(Len(encoded))

\* C24: within one call of score_pairs each distinct text string on either
\* side of the candidate set is handed to the embedding capability at most
\* once, also when several entities have the same text and when a string
\* occurs on both sides.
C24_EmbeddedOncePerString ==
    \A str \in RunTexts : TimesEncoded(str) <= 1

\* what holds of C24: the capability gets one text per entity, not one per
\* pair: one entry per key of pair_candidates in the first call, one entry
\* per candidate ticker in the second.
C24_EmbeddedOncePerEntity ==
    Scored =>
        /\ Len(encoded) = 3
        /\ Len(encoded[2].texts) = Cardinality(DOMAIN pair_candidates)
        /\ Len(encoded[3].texts) =
              Cardinality(UNION {pair_candidates[l] : l \in DOMAIN pair_candidates})
        /\ \A l \in DOMAIN pair_candidates :
              Cardinality({n \in 1..Len(encoded[2].texts) : encoded[2].texts[n] = l}) = 1

\* analyze_entity_matches returned its match table
RunReturned == run_pc \in {"returned", "evaluated"} /\ encoded # <<>>

\* C27: every pair in the final output of analyze_entity_matches has status
\* approved or pending, never rejected: the matcher runs with min_confidence
\* = CONFIDENCE_AUTO_REJECT, so a pair score_pairs classified as rejected is
\* not in the 1:1 match table (the returned one and the written one).
C27_NoRejectedInOutput ==
    /\ RunReturned =>
          \A i \in 1..Len(run_output.rows) :
              run_output.rows[i].status \in {STATUS_APPROVED, STATUS_PENDING}
    /\ output_file.written =>
          \A i \in 1..Len(output_file.frame.rows) :
              output_file.frame.rows[i].status \in {STATUS_APPROVED, STATUS_PENDING}

\* what holds of C27: every pair of the final output has a (rounded)
\* confidence of at least CONFIDENCE_AUTO_REJECT.
C27_OutputAtLeastReject ==
    /\ RunReturned =>
          \A i \in 1..Len(run_output.rows) :
              run_output.rows[i].confidence >= CONFIDENCE_AUTO_REJECT
    /\ output_file.written =>
          \A i \in 1..Len(output_file.frame.rows) :
              output_file.frame.rows[i].confidence >= CONFIDENCE_AUTO_REJECT

-----------------------------------------------------------------------------
(* pipelines/trials/extract.py: fetch_studies;
   pipelines/tickers/extract.py: _fetch_tickers_paginated *)

\* Both generators run the same two loops: `while url` over the pages and,
\* inside it, `while retries < max_retries` over the requests of one page.
\* A request is answered with a page (JSON object), with the JSON value
\* null, with HTTP 429 or with another HTTP error.

\* largest number of pages the server hands out
MaxPages == 2

\* largest max_retries argument
MaxRetries == 2

\* largest number of records of a page that the generator yields
MaxRecords == 1

Fetchers == {"fetch_studies", "_fetch_tickers_paginated"}

\* HTTP errors other than 429
OtherErrors == {404, 500}

\* `retries = 0` at the top of the page loop
ResetRetriesMutant(counter) == counter
ResetRetries(counter) == 0

\* 2 ** n
RECURSIVE Pow2(_)
Pow2(n) == IF n = 0 THEN 1 ELSE 2 * Pow2(n - 1)

\* wait_time, in units of rate_limit_delay, after the retries-th 429:
\* 2**retries in fetch_studies, 2**(retries - 1) in _fetch_tickers_paginated
WaitTime(fn, count) ==
    IF fn = "fetch_studies" THEN Pow2(count) ELSE Pow2(count - 1)

\* where the generator stands when the retry loop is entered or re-entered:
\* another request while retries < max_retries, else data is None and
\* RuntimeError is raised
AfterRetryTest(count, limit) ==
    IF count < limit THEN "request" ELSE "RuntimeError"

InitFetch ==
    /\ fetcher \in Fetchers
    /\ max_retries \in 0..MaxRetries
    /\ fetch_pc = "page"
    /\ page = 0
    /\ retries = 0
    /\ requests = <<>>
    /\ yielded = <<>>
    /\ slept = <<>>
    /\ pairs_df = {}
    /\ min_score = 0
    /\ IdleMatch
    /\ IdleScore
    /\ IdleEval
    /\ IdleReport
    /\ IdleLoad
    /\ IdleTok
    /\ IdleRun

\* the top of `while url`: retries = 0, data = None, and the first test of
\* the retry loop
BeginPage ==
    /\ fetch_pc = "page"
    /\ retries' = ResetRetries(retries)
    /\ fetch_pc' = AfterRetryTest(retries', max_retries)
    /\ UNCHANGED <<fetcher, max_retries, page, requests, yielded, slept, outsideFetch>>

\* a request answered with HTTP 429: retries += 1, the backoff sleep, and
\* the test of the retry loop
RateLimited ==
    /\ fetch_pc = "request"
    /\ requests' = Append(requests, [page |-> page, code |-> 429, body |-> "none",
                                     next |-> FALSE])
    /\ retries' = retries + 1
    /\ slept' = Append(slept, WaitTime(fetcher, retries'))
    /\ fetch_pc' = AfterRetryTest(retries', max_retries)
    /\ UNCHANGED <<fetcher, max_retries, page, yielded, outsideFetch>>

\* a request answered with another HTTP error: `raise`
OtherHTTPError(code) ==
    /\ fetch_pc = "request"
    /\ requests' = Append(requests, [page |-> page, code |-> code, body |-> "none",
                                     next |-> FALSE])
    /\ fetch_pc' = "HTTPError"
    /\ UNCHANGED <<fetcher, max_retries, page, retries, yielded, slept, outsideFetch>>

\* a request answered with the JSON value null: data is None after the
\* break, and RuntimeError is raised
NullPage ==
    /\ fetch_pc = "request"
    /\ requests' = Append(requests, [page |-> page, code |-> 200, body |-> "null",
                                     next |-> FALSE])
    /\ fetch_pc' = "RuntimeError"
    /\ UNCHANGED <<fetcher, max_retries, page, retries, yielded, slept, outsideFetch>>

\* a request answered with a page: its records are yielded (n of them pass
\* the filters), page += 1, and the next url is the one of the token, or
\* None without a token; _fetch_tickers_paginated also stops at the cutoff
PageReceived(n, has_next, cutoff) ==
    /\ fetch_pc = "request"
    /\ has_next => page + 1 < MaxPages
    /\ cutoff => fetcher = "_fetch_tickers_paginated"
    /\ requests' = Append(requests, [page |-> page, code |-> 200, body |-> "object",
                                     next |-> has_next])
    /\ yielded' = yielded \o [i \in 1..n |-> [page |-> page]]
    /\ page' = page + 1
    /\ IF cutoff THEN fetch_pc' = "done" /\ slept' = slept
       ELSE IF has_next THEN fetch_pc' = "page" /\ slept' = Append(slept, 1)
       ELSE fetch_pc' = "done" /\ slept' = slept
    /\ UNCHANGED <<fetcher, max_retries, retries, outsideFetch>>

NextFetch ==
    \/ BeginPage
    \/ RateLimited
    \/ \E code \in OtherErrors : OtherHTTPError(code)
    \/ NullPage
    \/ \E n \in 0..MaxRecords, has_next \in BOOLEAN, cutoff \in BOOLEAN :
          PageReceived(n, has_next, cutoff)

SpecFetch == InitFetch /\ [][NextFetch]_vars

-----------------------------------------------------------------------------
(* Claims about the paginated fetchers (checked under SpecFetch) *)

\* the requests issued for page p, and those of them answered 429 among
\* the first i requests of the fetch
RequestsOf(p) == {i \in 1..Len(requests) : requests[i].page = p}
RateLimitedUpTo(p, i) ==
    {j \in RequestsOf(p) : j <= i /\ requests[j].code = 429}

\* the fetch has ended, normally or with an exception
FetchEnded == fetch_pc \in {"done", "RuntimeError", "HTTPError"}

\* the invariant of C30
RetryBound ==
    /\ \A p \in 0..MaxPages : Cardinality(RequestsOf(p)) <= max_retries
    /\ \A i \in 1..Len(requests) :
          LET p == requests[i].page
              answered429 == Cardinality(RateLimitedUpTo(p, i))
          IN  /\ (requests[i].code = 429 /\ answered429 = max_retries) =>
                    i = Len(requests) /\ fetch_pc = "RuntimeError"
              /\ (requests[i].code = 429 /\ answered429 < max_retries) =>
                    \/ i < Len(requests) /\ requests[i + 1].page = p
                    \/ i = Len(requests) /\ fetch_pc = "request"
              /\ requests[i].code \in OtherErrors =>
                    i = Len(requests) /\ fetch_pc = "HTTPError"
    /\ (/\ Len(requests) > 0
        /\ requests[Len(requests)].body = "object"
        /\ ~requests[Len(requests)].next)
       => fetch_pc = "done"
    /\ \A n \in 1..Len(yielded) :
          \E i \in RequestsOf(yielded[n].page) : requests[i].body = "object"

\* C30: the paginated fetchers never retry forever: at most max_retries
\* requests per page, the retry counter starting at 0 on each page (a page
\* answered 429 fewer than max_retries times gets another request, whatever
\* happened on earlier pages), RuntimeError after max_retries 429 answers on
\* one page, any other HTTP error raised at once, a normal end on a page
\* without a next-page token, and nothing requested or yielded after the end.
C30_BoundedRetries ==
    /\ []RetryBound
    /\ [][FetchEnded => (requests' = requests /\ yielded' = yielded)]_vars

\* C30 witness: the first page was answered 429 and then received with a
\* record, and the second page ended the fetch with RuntimeError after
\* max_retries = 2 answers 429.
C30_Witness ==
    /\ fetch_pc = "RuntimeError"
    /\ max_retries = 2
    /\ page = 1
    /\ Len(requests) = 4
    /\ requests[1].code = 429
    /\ requests[2].body = "object"
    /\ requests[3].code = 429
    /\ requests[4].code = 429
    /\ Len(yielded) = 1

====
